---- MODULE Spec2Model ----
(***************************************************************************)
(* Model of the useDuckDB hook (src/src/hooks/useDuckDB.ts): the startup   *)
(* effect, the reload effect and the four handlers it returns, over the    *)
(* two tables (strokes, strokes_json) of the DuckDB instances the startup  *)
(* effect creates.  Every await of the source is a step boundary: an       *)
(* action is one Store call together with the synchronous code up to the   *)
(* next await.                                                             *)
(***************************************************************************)
EXTENDS Integers, Sequences, FiniteSets, Bags, TLC

\* ---------------------------------------------------------------- bounds
\* how many asynchronous operations (handlers, effect reloads) may be in flight
MaxOps == 1
\* how many strokes may be handed to persistStroke with >= 2 points
MaxStrokes == 2
\* the greatest pixel coordinate of a stored stroke
MaxCoordinate == 10
\* the longest point list toWKT is applied to
MaxLen == 3
\* the longest list DrawingSurface accumulates in one stroke
MaxPts == 2
\* how many strokes DrawingSurface hands to onFinish
MaxFinished == 1
\* how many rows each table holds when reloadFromDB is applied to rows of
\* any content
MaxRows == 2
\* the point-cloud files loaded or being read at a time
MaxClouds == 2
\* pixel and world coordinates the coordinate mapping is applied to are the
\* halves from -2/2 to MaxHalves/2
MaxHalves == 5
\* the stroke widths the tolerance of the simplify-update is computed for
\* are the whole numbers from -MaxWidth to MaxWidth
MaxWidth == 20

\* ------------------------------------------------------- values of the code
\* useState<...|null>(null): the connection of startup run r is r, null is 0
NoConn == 0
\* a coordinate that is not finite (NaN, +-Infinity); finite ones are >= 0
NaN == -1
\* what JSON.stringify writes for a non-finite number
JsonNull == -2

\* the runs of the startup effect: the mount, and the one re-run React's
\* StrictMode makes right after the first cleanup; each run creates its own
\* AsyncDuckDB instance, so a run also names a database and its connection
Runs == {1, 2}

VARIABLES
    dbConn,         \* useState: the exposed connection (NoConn or a run)
    spatialLoaded,  \* useState: geometryCapable
    loading,        \* useState
    strokes,        \* useState: the exposed stroke list
    started,        \* how many times the startup effect has run
    pc,             \* per startup run: where its async function is suspended
    cancelled,      \* per startup run: the effect's cancelled flag
    spatialOK,      \* per startup run: its local spatialOK
    created,        \* per DuckDB instance: the tables CREATE TABLE has created
    geomT,          \* per DuckDB instance: the rows of table strokes
    jsonT,          \* per DuckDB instance: the rows of table strokes_json
    ops,            \* the asynchronous operations in flight (a bag of records)
    nextId,         \* ids handed out by crypto.randomUUID so far
    last,           \* the handler call that is returning at once, or the
                    \* rejection of a handler's promise, if any
    view,           \* useThree(): size and viewport of the canvas
    enabled,        \* DrawingSurface prop: interactionMode === 'draw'
    drawing,        \* DrawingSurface useState
    ptsPxRef,       \* DrawingSurface useRef: ptsPxRef.current
    previewWorld,   \* DrawingSurface useState
    onFinish,       \* the calls of onFinish: how many, and the list of the latest
    pcdFileContents, \* App useState: the texts of the point-cloud files loaded
    arg,            \* the argument a function under test is applied to
    res             \* its result

vars == <<dbConn, spatialLoaded, loading, strokes, started, pc, cancelled,
          spatialOK, created, geomT, jsonT, ops, nextId, last,
          view, enabled, drawing, ptsPxRef, previewWorld, onFinish,
          pcdFileContents, arg, res>>

hook == <<dbConn, spatialLoaded, loading, strokes>>
store == <<created, geomT, jsonT>>
startup == <<started, pc, cancelled, spatialOK>>
surface == <<view, enabled, drawing, ptsPxRef, previewWorld, onFinish,
             pcdFileContents>>
applied == <<arg, res>>

\* ------------------------------------------------------------ pure helpers
Max(a, b) == IF a >= b THEN a ELSE b
Min(a, b) == IF a <= b THEN a ELSE b

\* Number.isFinite
IsFinite(v) == v # NaN

\* the arguments DrawingSurface.onFinish / App.handlePersistStroke pass to
\* persistStroke: ptsPx, strokeColor, strokeWidth, simplifyOn
StrokeInputs ==
    << [pts |-> <<>>, color |-> "#222222", width |-> 4, simplifyOn |-> TRUE],
       [pts |-> << <<7, 7>> >>, color |-> "#222222", width |-> 4, simplifyOn |-> TRUE],
       [pts |-> << <<0, 0>>, <<10, 10>> >>, color |-> "#222222", width |-> 4,
        simplifyOn |-> FALSE],
       [pts |-> << <<0, 0>>, <<5, 1>>, <<10, 0>> >>, color |-> "#ff0000", width |-> 4,
        simplifyOn |-> TRUE],
       [pts |-> << <<NaN, NaN>>, <<3, 3>> >>, color |-> "#222222", width |-> 4,
        simplifyOn |-> TRUE] >>

\* the point lists whose coordinates are all finite, and the others
\* (worldToPx divides by viewport.width and viewport.height, which are 0
\* for a canvas without extent)
Inputs ==
    {i \in 1..Len(StrokeInputs) :
        \A k \in 1..Len(StrokeInputs[i].pts) :
           IsFinite(StrokeInputs[i].pts[k][1]) /\ IsFinite(StrokeInputs[i].pts[k][2])}
NonFiniteInputs == (1..Len(StrokeInputs)) \ Inputs

\* Array.prototype.filter
RECURSIVE FilterFinite(_)
FilterFinite(pts) ==
    IF pts = <<>> THEN <<>>
    ELSE IF IsFinite(Head(pts)[1]) /\ IsFinite(Head(pts)[2])
         THEN <<Head(pts)>> \o FilterFinite(Tail(pts))
         ELSE FilterFinite(Tail(pts))

\* Array.prototype.join(", ") of pieces of text
RECURSIVE Join(_)
Join(parts) ==
    IF parts = <<>> THEN <<>>
    ELSE IF Len(parts) = 1 THEN parts[1]
    ELSE parts[1] \o <<", ">> \o Join(Tail(parts))

\* a variant that keeps every point
toWKTUnfiltered(ptsPx) ==
    LET body == [i \in 1..Len(ptsPx) |->
                    <<ToString(ptsPx[i][1]), " ", ToString(ptsPx[i][2])>>]
    IN  <<"LINESTRING(">> \o Join(body) \o <<")">>
\* toWKT: the text `LINESTRING(${body})` as the sequence of its pieces, a
\* number being one piece: "LINESTRING(", "x1", " ", "y1", ", ", "x2", ...
toWKT(ptsPx) ==
    LET filtered == FilterFinite(ptsPx)
        body == [i \in 1..Len(filtered) |->
                    <<ToString(filtered[i][1]), " ", ToString(filtered[i][2])>>]
    IN  <<"LINESTRING(">> \o Join(body) \o <<")">>

\* the number a piece of text denotes
ParseNumber(text) == CHOOSE n \in 0..MaxCoordinate : ToString(n) = text

\* ST_GeomFromText: the geometry a LINESTRING text denotes
ST_GeomFromText(wkt) ==
    LET n == (Len(wkt) - 1) \div 4
    IN  [type |-> "LineString",
         coordinates |-> [i \in 1..n |-> <<ParseNumber(wkt[4 * i - 2]),
                                          ParseNumber(wkt[4 * i])>>]]

\* ST_AsGeoJSON followed by JSON.parse: the GeoJSON object of a geometry
ST_AsGeoJSON(geom) == [type |-> geom.type, coordinates |-> geom.coordinates]

parseLineStringFromGeoJSON(gj) ==
    IF gj.type # "LineString" THEN <<>>
    ELSE [i \in 1..Len(gj.coordinates) |-> <<gj.coordinates[i][1], gj.coordinates[i][2]>>]

\* JSON.stringify of a point list: a non-finite number is written as null
JsonNum(v) == IF IsFinite(v) THEN v ELSE JsonNull
\* a variant that writes each point as [x, x]
JSONstringifyXOnly(ptsPx) ==
    [valid |-> TRUE, isArray |-> TRUE,
     items |-> [i \in 1..Len(ptsPx) |-> <<JsonNum(ptsPx[i][1]), JsonNum(ptsPx[i][1])>>]]
\* a text of the coords column: valid says whether JSON.parse takes it,
\* isArray and items what it parses to
JSONstringify(ptsPx) ==
    [valid |-> TRUE, isArray |-> TRUE,
     items |-> [i \in 1..Len(ptsPx) |-> <<JsonNum(ptsPx[i][1]), JsonNum(ptsPx[i][2])>>]]

\* try { a = JSON.parse(coordsStr); if (Array.isArray(a)) pts = a } catch {}:
\* [] unless the text parses to an array
ParseCoords(coords) == IF coords.valid /\ coords.isArray THEN coords.items ELSE <<>>

\* a column value that is SQL NULL (row.toJSON() gives null)
SqlNull == "NULL"
\* toStr: a string as it is, null as ""
toStr(v) == IF v = SqlNull THEN "" ELSE v
\* a DOUBLE column that is SQL NULL (row.toJSON() gives null)
SqlNullNumber == -3
\* toNum: a number as it is (the width column is DOUBLE); null is not a
\* number and goes through Number(v): Number(null) is 0
toNum(v) == IF v = SqlNullNumber THEN 0 ELSE v
DefaultColor == "#222"
DefaultWidth == 3
ReadColor(c) == IF toStr(c) = "" THEN DefaultColor ELSE toStr(c)
ReadWidth(w) == IF IsFinite(toNum(w)) THEN toNum(w) ELSE DefaultWidth

\* a variant without Math.max(0, ...)
Tolerance10NoFloor(strokeWidth) == Min(strokeWidth * 3, 30)
\* Math.max(0, Math.min(strokeWidth * 0.3, 3)), in tenths of a pixel
Tolerance10(strokeWidth) == Max(0, Min(strokeWidth * 3, 30))

\* ST_Simplify (Douglas-Peucker): D is the squared distance of p to the
\* segment ab, times |ab|^2 when a # b
Dot(u, v) == u[1] * v[1] + u[2] * v[2]
Sub(u, v) == <<u[1] - v[1], u[2] - v[2]>>
Cross(u, v) == u[1] * v[2] - u[2] * v[1]
SegD(p, a, b) ==
    LET ab == Sub(b, a)
        ap == Sub(p, a)
        bp == Sub(p, b)
        l2 == Dot(ab, ab)
        t == Dot(ap, ab)
    IN  IF l2 = 0 THEN Dot(ap, ap)
        ELSE IF t <= 0 THEN Dot(ap, ap) * l2
        ELSE IF t >= l2 THEN Dot(bp, bp) * l2
        ELSE Cross(ab, ap) * Cross(ab, ap)
FartherThan(p, a, b, tol10) ==
    LET l2 == Dot(Sub(b, a), Sub(b, a))
    IN  100 * SegD(p, a, b) > tol10 * tol10 * (IF l2 = 0 THEN 1 ELSE l2)

RECURSIVE ST_Simplify(_, _)
ST_Simplify(pts, tol10) ==
    LET n == Len(pts) IN
    IF n <= 2 THEN pts
    ELSE LET a == pts[1]
             b == pts[n]
             far == CHOOSE i \in 2..(n - 1) :
                      \A j \in 2..(n - 1) :
                         \/ SegD(pts[i], a, b) > SegD(pts[j], a, b)
                         \/ (SegD(pts[i], a, b) = SegD(pts[j], a, b) /\ i <= j)
         IN  IF FartherThan(pts[far], a, b, tol10)
             THEN ST_Simplify(SubSeq(pts, 1, far), tol10)
                  \o Tail(ST_Simplify(SubSeq(pts, far, n), tol10))
             ELSE <<a, b>>

\* ------------------------------------------------------------- the Store
\* now(): later than the created_at of every row of the same database
TsOf(t) == {row.created_at : row \in t}
Now(db) ==
    LET ts == TsOf(geomT[db]) \cup TsOf(jsonT[db])
    IN  IF ts = {} THEN 1 ELSE 1 + (CHOOSE m \in ts : \A u \in ts : u <= m)

\* a variant that orders by created_at DESC
OrderByCreatedAtDesc(rows) ==
    CHOOSE s \in [1..Cardinality(rows) -> rows] :
       \A i, j \in 1..Cardinality(rows) : i < j => s[i].created_at > s[j].created_at
\* SELECT ... ORDER BY created_at ASC
RECURSIVE OrderByCreatedAt(_)
OrderByCreatedAt(rows) ==
    IF rows = {} THEN <<>>
    ELSE LET first == CHOOSE r \in rows : \A q \in rows : r.created_at <= q.created_at
         IN  <<first>> \o OrderByCreatedAt(rows \ {first})

\* SELECT id FROM t ORDER BY created_at DESC LIMIT 1
MostRecent(rows) ==
    {r \in rows : \A q \in rows : q.created_at <= r.created_at}

\* reloadFromDB, the loop over the rows of strokes
GeomStroke(row) ==
    [id |-> row.id, color |-> ReadColor(row.color), width |-> ReadWidth(row.width),
     ptsPx |-> parseLineStringFromGeoJSON(ST_AsGeoJSON(row.geom))]
GeomStrokes(rows) ==
    LET s == OrderByCreatedAt(rows) IN [i \in 1..Len(s) |-> GeomStroke(s[i])]

\* reloadFromDB, the loop over the rows of strokes_json
JsonStroke(row) ==
    [id |-> row.id, color |-> ReadColor(row.color), width |-> ReadWidth(row.width),
     ptsPx |-> ParseCoords(row.coords)]
JsonStrokes(rows) ==
    LET s == OrderByCreatedAt(rows) IN [i \in 1..Len(s) |-> JsonStroke(s[i])]

\* ------------------------------------------------- operations in flight
\* an operation: its handler, the await it is suspended at, the dbConn and
\* spatialLoaded its closure captured, its arguments, its newId and the list
\* reloadFromDB has built so far
Op(kind, firstPc, conn, spatial, inp, id) ==
    [kind |-> kind, pc |-> firstPc, conn |-> conn, spatial |-> spatial,
     inp |-> inp, id |-> id, list |-> <<>>]
InFlight == BagToSet(ops)
HasFree(o) == BagCardinality(o) < MaxOps
Quiet == ops = EmptyBag
Without(o) == ops (-) SetToBag({o})

\* a variant of reloadFromDB that never queries table strokes
ReloadPcFallbackOnly(spatial) == "reloadJson"
\* where reloadFromDB suspends first, given the spatialLoaded of its closure
ReloadPc(spatial) == IF spatial THEN "reloadGeom" ELSE "reloadJson"

\* the reload effect (deps [dbConn, spatialLoaded]): when a render changes
\* either of them and dbConn is set, reloadFromDB of that render is called
EffectFires(conn, spatial) ==
    (conn # dbConn \/ spatial # spatialLoaded) /\ conn # NoConn
AfterRender(o, conn, spatial) ==
    IF EffectFires(conn, spatial)
    THEN o (+) SetToBag({Op("effect", ReloadPc(spatial), conn, spatial, 0, 0)})
    ELSE o
CanRender(o, conn, spatial) == EffectFires(conn, spatial) => HasFree(o)

NoCall == [op |-> "none", inp |-> 0]
\* no handler is in the middle of a synchronous call
Idle == last = NoCall

\* --------------------------------------------------- exact arithmetic
\* a number of the drawing surface is a fraction <<n, d>> in lowest terms
\* with d > 0, so that the divisions of the coordinate mapping are computed
RECURSIVE GCD(_, _)
GCD(a, b) == IF b = 0 THEN a ELSE GCD(b, a % b)
Abs(a) == IF a < 0 THEN -a ELSE a
Frac(n, d) ==
    LET g == GCD(Abs(n), Abs(d))
        sgn == IF d < 0 THEN -1 ELSE 1
    IN  <<sgn * (n \div g), sgn * (d \div g)>>
Num(n) == <<n, 1>>
Plus(a, b) == Frac(a[1] * b[2] + b[1] * a[2], a[2] * b[2])
Minus(a, b) == Frac(a[1] * b[2] - b[1] * a[2], a[2] * b[2])
Times(a, b) == Frac(a[1] * b[1], a[2] * b[2])
Over(a, b) == Frac(a[1] * b[2], a[2] * b[1])
AtLeast(a, b) == a[1] * b[2] >= b[1] * a[2]

\* ------------------------------------------------- the coordinate mapping
\* useThree(): size (pixels) and viewport (world units)
View(sw, sh, vw, vh) ==
    [size |-> [width |-> Num(sw), height |-> Num(sh)],
     viewport |-> [width |-> Num(vw), height |-> Num(vh)]]
\* the canvases of the model: 1, 2 and 1/2 pixel per world unit, and one
\* with different scales in x and y
Views == {View(8, 8, 8, 8), View(16, 16, 8, 8), View(4, 4, 8, 8), View(12, 6, 4, 3)}
MountedView == View(8, 8, 8, 8)

\* Scene: pxToWorld (the z = 0 of the result is left out)
pxToWorld(v, x, y) ==
    LET wx == Minus(Times(Over(x, v.size.width), v.viewport.width),
                    Over(v.viewport.width, Num(2)))
        wy == Minus(Over(v.viewport.height, Num(2)),
                    Times(Over(y, v.size.height), v.viewport.height))
    IN  <<wx, wy>>

\* a variant whose pixel y axis points up
worldToPxYUp(v, wx, wy) ==
    LET x == Times(Over(Plus(wx, Over(v.viewport.width, Num(2))), v.viewport.width),
                   v.size.width)
        y == Times(Over(Plus(Over(v.viewport.height, Num(2)), wy), v.viewport.height),
                   v.size.height)
    IN  <<x, y>>
\* DrawingSurface: worldToPx
worldToPx(v, wx, wy) ==
    LET x == Times(Over(Plus(wx, Over(v.viewport.width, Num(2))), v.viewport.width),
                   v.size.width)
        y == Times(Over(Minus(Over(v.viewport.height, Num(2)), wy), v.viewport.height),
                   v.size.height)
    IN  <<x, y>>

\* no function has been applied
NoArg == [fn |-> "none"]

\* ----------------------------------------------------------------- Init
\* DrawingSurface after its first render
InitSurface ==
    /\ view = MountedView
    /\ enabled = TRUE
    /\ drawing = FALSE
    /\ ptsPxRef = <<>>
    /\ previewWorld = <<>>
    /\ onFinish = [calls |-> 0, ptsPx |-> <<>>]
    /\ pcdFileContents = <<>>

\* the hook after its first render
InitHook ==
    /\ dbConn = NoConn
    /\ spatialLoaded = FALSE
    /\ loading = TRUE
    /\ strokes = <<>>
    /\ started = 0
    /\ pc = [r \in Runs |-> "unborn"]
    /\ cancelled = [r \in Runs |-> FALSE]
    /\ spatialOK = [r \in Runs |-> FALSE]
    /\ created = [r \in Runs |-> {}]
    /\ geomT = [r \in Runs |-> {}]
    /\ jsonT = [r \in Runs |-> {}]
    /\ ops = EmptyBag
    /\ nextId = 0
    /\ last = NoCall

Init ==
    /\ InitHook
    /\ InitSurface
    /\ arg = NoArg
    /\ res = NoArg

\* ------------------------------------------------------ the startup effect
Mounted == started > 0 /\ ~cancelled[started]

\* useEffect(() => {...}, []): the effect runs on mount, up to the first await
StartEffect ==
    /\ started = 0
    /\ Idle /\ UNCHANGED last
    /\ started' = 1
    /\ pc' = [pc EXCEPT ![1] = "open"]
    /\ loading' = TRUE
    /\ UNCHANGED <<dbConn, spatialLoaded, strokes, cancelled, spatialOK, store, ops,
                   nextId>>

\* StrictMode: right after the mount React runs the cleanup and the effect
\* again, before any await of the first run resumes
StrictRemount ==
    /\ started = 1
    /\ Idle /\ UNCHANGED last
    /\ pc[1] = "open"
    /\ ~cancelled[1]
    /\ cancelled' = [cancelled EXCEPT ![1] = TRUE]
    /\ started' = 2
    /\ pc' = [pc EXCEPT ![2] = "open"]
    /\ loading' = TRUE
    /\ UNCHANGED <<dbConn, spatialLoaded, strokes, spatialOK, store, ops, nextId>>

\* the cleanup the effect returns, run when the component unmounts.  The
\* flag is read by the startup sequence only, so a cleanup after the run has
\* ended changes nothing that is read again.
Cleanup ==
    /\ Mounted
    /\ pc[started] \notin {"done", "failed"}
    /\ Idle /\ UNCHANGED last
    /\ cancelled' = [cancelled EXCEPT ![started] = TRUE]
    /\ UNCHANGED <<hook, started, pc, spatialOK, store, ops, nextId>>

\* a variant of the run without its finally block
ThrowKeepsLoading(r) ==
    /\ pc' = [pc EXCEPT ![r] = "failed"]
    /\ UNCHANGED <<dbConn, spatialLoaded, loading, strokes, started, cancelled, spatialOK,
                   store, ops, nextId>>

\* an await of the try block rejects: the finally block runs
Throw(r) ==
    /\ pc' = [pc EXCEPT ![r] = "failed"]
    /\ loading' = IF cancelled[r] THEN loading ELSE FALSE
    /\ UNCHANGED <<dbConn, spatialLoaded, strokes, started, cancelled, spatialOK, store,
                   ops, nextId>>

\* await _db.instantiate(...); const _conn = await _db.connect();
\* (nothing of the hook or of the Store changes between the two awaits)
Open(r) ==
    /\ pc[r] = "open"
    /\ Idle /\ UNCHANGED last
    /\ \/ /\ pc' = [pc EXCEPT ![r] = "spatial"]
          /\ UNCHANGED <<hook, started, cancelled, spatialOK, store, ops, nextId>>
       \/ Throw(r)

\* setSpatialLoaded(v) of run r, and the render it causes
SetSpatialLoaded(r, v) ==
    /\ CanRender(ops, dbConn, v)
    /\ spatialLoaded' = v
    /\ ops' = AfterRender(ops, dbConn, v)
    /\ pc' = [pc EXCEPT ![r] = "createTables"]

\* a variant in which a rejected INSTALL/LOAD ends the run
LoadSpatialOrFail(r) ==
    /\ pc[r] = "spatial"
    /\ Idle /\ UNCHANGED last
    /\ \/ /\ SetSpatialLoaded(r, TRUE)
          /\ spatialOK' = [spatialOK EXCEPT ![r] = TRUE]
          /\ UNCHANGED <<dbConn, loading, strokes, started, cancelled, store, nextId>>
       \/ Throw(r)

\* try { await _conn.query(`INSTALL spatial;`); await _conn.query(`LOAD
\* spatial;`); setSpatialLoaded(true); spatialOK = true; } catch (e) {
\* setSpatialLoaded(false); }
LoadSpatial(r) ==
    /\ pc[r] = "spatial"
    /\ Idle /\ UNCHANGED last
    /\ \/ /\ SetSpatialLoaded(r, TRUE)
          /\ spatialOK' = [spatialOK EXCEPT ![r] = TRUE]
       \/ /\ SetSpatialLoaded(r, FALSE)
          /\ UNCHANGED spatialOK
    /\ UNCHANGED <<dbConn, loading, strokes, started, cancelled, store, nextId>>

\* await _conn.query(`CREATE TABLE IF NOT EXISTS strokes_json ...`);
\* if (spatialOK) await _conn.query(`CREATE TABLE IF NOT EXISTS strokes ...`);
\* if (!cancelled) setDbConn(_conn); finally { if (!cancelled) setLoading(false) }
\* (the connection is local to the run until setDbConn: nothing else can
\* reach the database between the two CREATE TABLE statements)
\* a variant of the run that exposes the connection without creating a table
TablesOfNone(r) == {}
TablesOf(r) == IF spatialOK[r] THEN {"strokes_json", "strokes"} ELSE {"strokes_json"}
\* a variant of the run whose finally block does not call setLoading(false)
CreateTablesKeepsLoading(r) ==
    LET conn == IF cancelled[r] THEN dbConn ELSE r IN
    /\ pc[r] = "createTables"
    /\ Idle /\ UNCHANGED last
    /\ \/ /\ created' = [created EXCEPT ![r] = @ \cup TablesOf(r)]
          /\ CanRender(ops, conn, spatialLoaded)
          /\ dbConn' = conn
          /\ ops' = AfterRender(ops, conn, spatialLoaded)
          /\ pc' = [pc EXCEPT ![r] = "done"]
          /\ UNCHANGED <<spatialLoaded, loading, strokes, started, cancelled, spatialOK,
                         geomT, jsonT, nextId>>
       \/ Throw(r)

CreateTables(r) ==
    LET conn == IF cancelled[r] THEN dbConn ELSE r IN
    /\ pc[r] = "createTables"
    /\ Idle /\ UNCHANGED last
    /\ \/ /\ created' = [created EXCEPT ![r] = @ \cup TablesOf(r)]
          /\ CanRender(ops, conn, spatialLoaded)
          /\ dbConn' = conn
          /\ loading' = IF cancelled[r] THEN loading ELSE FALSE
          /\ ops' = AfterRender(ops, conn, spatialLoaded)
          /\ pc' = [pc EXCEPT ![r] = "done"]
          /\ UNCHANGED <<spatialLoaded, strokes, started, cancelled, spatialOK, geomT,
                         jsonT, nextId>>
       \/ Throw(r)

\* ------------------------------------------------------------ the handlers
\* a handler is called from the UI of the latest render: it closes over the
\* dbConn and spatialLoaded of that render
Spawn(kind, firstPc, inp, id) ==
    /\ HasFree(ops)
    /\ ops' = ops (+) SetToBag({Op(kind, firstPc, dbConn, spatialLoaded, inp, id)})
    /\ UNCHANGED last

\* if (!dbConn) return;  The call and its return are one synchronous piece of
\* JavaScript: last holds the call until Return, and no other step comes
\* between.  Such a call reads dbConn and its arguments only; the model makes
\* it while no operation is in flight.
\* a variant in which the guard throws instead of returning
ThrowsAtOnce(kind, inp) ==
    /\ Quiet
    /\ last' = [op |-> "rejects", inp |-> 0]
    /\ UNCHANGED <<hook, startup, store, ops, nextId>>
ReturnsAtOnce(kind, inp) ==
    /\ Quiet
    /\ last' = [op |-> kind, inp |-> inp]
    /\ UNCHANGED <<hook, startup, store, ops, nextId>>

\* a variant of handleUndo without its `if (!dbConn) return`
handleUndoUnguarded ==
    /\ Mounted
    /\ Idle
    /\ Spawn("undo", "undoDelete", 0, 0)
    /\ UNCHANGED <<hook, startup, store, nextId>>
handleUndo ==
    /\ Mounted
    /\ Idle
    /\ IF dbConn = NoConn THEN ReturnsAtOnce("undo", 0)
       ELSE /\ Spawn("undo", "undoDelete", 0, 0)
            /\ UNCHANGED <<hook, startup, store, nextId>>

handleClear ==
    /\ Mounted
    /\ Idle
    /\ IF dbConn = NoConn THEN ReturnsAtOnce("clear", 0)
       ELSE /\ Spawn("clear", IF spatialLoaded THEN "clearGeom" ELSE "clearJson", 0, 0)
            /\ UNCHANGED <<hook, startup, store, nextId>>

handleRefresh ==
    /\ Mounted
    /\ Idle
    /\ IF dbConn = NoConn THEN ReturnsAtOnce("refresh", 0)
       ELSE /\ Spawn("refresh", ReloadPc(spatialLoaded), 0, 0)
            /\ UNCHANGED <<hook, startup, store, nextId>>

\* a variant of the guard that lets a single point through
PersistReturnsAtOnceIfEmpty(i) == dbConn = NoConn \/ Len(StrokeInputs[i].pts) < 1
\* if (!dbConn || ptsPx.length < 2) return;
PersistReturnsAtOnce(i) == dbConn = NoConn \/ Len(StrokeInputs[i].pts) < 2

\* persistStroke up to its first await: newId = crypto.randomUUID()
persistStroke(i) ==
    /\ Mounted
    /\ Idle
    /\ IF PersistReturnsAtOnce(i) THEN ReturnsAtOnce("persist", i)
       ELSE /\ nextId < MaxStrokes
            /\ Spawn("persist", IF spatialLoaded THEN "insert" ELSE "insertJ", i, nextId + 1)
            /\ nextId' = nextId + 1
            /\ UNCHANGED <<hook, startup, store>>

\* the handler call that returned at once is over (or the rejection has
\* reached the caller)
Return ==
    /\ ~Idle
    /\ last' = NoCall
    /\ UNCHANGED <<hook, startup, store, ops, nextId>>

\* ------------------------------------------------- the steps of an operation
\* One step is one statement on the Store with the synchronous code that
\* follows it.  prepare() and close() touch no table: their awaits are part
\* of the step that executes the statement.

\* a variant in which the handler catches the error and returns normally
RejectsSwallowed(o) ==
    /\ ops' = Without(o)
    /\ UNCHANGED last
    /\ UNCHANGED <<hook, startup, store, nextId>>
\* the awaited Store call rejects: no handler has a try/catch around its
\* statements, so the async function ends there and its promise rejects with
\* the error; last holds the rejection (and the newId of the operation, 0 if
\* it has none) until the caller has received it
Rejects(o) ==
    /\ ops' = Without(o)
    /\ last' = [op |-> "rejects", inp |-> o.id]
    /\ UNCHANGED <<hook, startup, store, nextId>>

Goto(o, nextPc) ==
    /\ ops' = Without(o) (+) SetToBag({[o EXCEPT !.pc = nextPc]})
    /\ UNCHANGED last

\* the row INSERT INTO strokes writes: geom = ST_GeomFromText(toWKT(ptsPx))
GeomRow(o) ==
    [id |-> o.id, geom |-> ST_GeomFromText(toWKT(StrokeInputs[o.inp].pts)),
     color |-> StrokeInputs[o.inp].color, width |-> StrokeInputs[o.inp].width,
     created_at |-> Now(o.conn)]

\* persistStroke, spatialLoaded: prepare(INSERT INTO strokes ...),
\* insert.query(newId, wkt, strokeColor, strokeWidth), insert.close()
Insert(o) ==
    /\ o.pc = "insert"
    /\ Idle
    /\ IF "strokes" \notin created[o.conn] THEN Rejects(o)
       ELSE /\ geomT' = [geomT EXCEPT ![o.conn] = @ \cup {GeomRow(o)}]
            /\ Goto(o, IF StrokeInputs[o.inp].simplifyOn THEN "update"
                       ELSE ReloadPc(o.spatial))
            /\ UNCHANGED <<hook, startup, created, jsonT, nextId>>

\* UPDATE strokes SET geom = ST_Simplify(geom, tol) WHERE id = newId
Simplified(rows, id, tol10) ==
    {IF row.id = id
     THEN [row EXCEPT !.geom.coordinates = ST_Simplify(@, tol10)]
     ELSE row : row \in rows}

\* persistStroke, simplifyOn: prepare(UPDATE strokes ...),
\* upd.query(Math.max(0, Math.min(strokeWidth * 0.3, 3)), newId), upd.close(),
\* then reloadFromDB() up to its first await
Update(o) ==
    /\ o.pc = "update"
    /\ Idle
    /\ geomT' = [geomT EXCEPT ![o.conn] =
                    Simplified(@, o.id, Tolerance10(StrokeInputs[o.inp].width))]
    /\ Goto(o, ReloadPc(o.spatial))
    /\ UNCHANGED <<hook, startup, created, jsonT, nextId>>

\* the row INSERT INTO strokes_json writes: coords = JSON.stringify(ptsPx)
JsonRow(o) ==
    [id |-> o.id, coords |-> JSONstringify(StrokeInputs[o.inp].pts),
     color |-> StrokeInputs[o.inp].color, width |-> StrokeInputs[o.inp].width,
     created_at |-> Now(o.conn)]

\* a variant that does not await insertJ.query: reloadFromDB starts before
\* the row is written
InsertJNotAwaited(o) ==
    /\ o.pc = "insertJ"
    /\ Idle
    /\ Goto(o, ReloadPc(o.spatial))
    /\ UNCHANGED <<hook, startup, store, nextId>>

\* a variant that simplifies the points itself when simplifyOn is set
InsertJSimplifies(o) ==
    /\ o.pc = "insertJ"
    /\ Idle
    /\ jsonT' = [jsonT EXCEPT ![o.conn] = @ \cup
                    {[JsonRow(o) EXCEPT !.coords =
                         IF StrokeInputs[o.inp].simplifyOn
                         THEN JSONstringify(ST_Simplify(StrokeInputs[o.inp].pts,
                                               Tolerance10(StrokeInputs[o.inp].width)))
                         ELSE @]}]
    /\ Goto(o, ReloadPc(o.spatial))
    /\ UNCHANGED <<hook, startup, created, geomT, nextId>>

\* persistStroke, not spatialLoaded: prepare(INSERT INTO strokes_json ...),
\* insertJ.query(newId, JSON.stringify(ptsPx), strokeColor, strokeWidth),
\* insertJ.close(), then reloadFromDB() up to its first await
InsertJ(o) ==
    /\ o.pc = "insertJ"
    /\ Idle
    /\ jsonT' = [jsonT EXCEPT ![o.conn] = @ \cup {JsonRow(o)}]
    /\ Goto(o, ReloadPc(o.spatial))
    /\ UNCHANGED <<hook, startup, created, geomT, nextId>>

\* handleUndo: DELETE FROM t WHERE id IN (SELECT id FROM t ORDER BY
\* created_at DESC LIMIT 1), t by spatialLoaded; then reloadFromDB()
UndoDelete(o) ==
    /\ o.pc = "undoDelete"
    /\ Idle
    /\ IF o.spatial
       THEN IF "strokes" \notin created[o.conn] THEN Rejects(o)
            ELSE /\ geomT' = [geomT EXCEPT ![o.conn] = @ \ MostRecent(@)]
                 /\ Goto(o, ReloadPc(o.spatial))
                 /\ UNCHANGED <<hook, startup, created, jsonT, nextId>>
       ELSE /\ jsonT' = [jsonT EXCEPT ![o.conn] = @ \ MostRecent(@)]
            /\ Goto(o, ReloadPc(o.spatial))
            /\ UNCHANGED <<hook, startup, created, geomT, nextId>>

\* handleClear: if (spatialLoaded) await dbConn.query(`DELETE FROM strokes;`)
ClearGeom(o) ==
    /\ o.pc = "clearGeom"
    /\ Idle
    /\ IF "strokes" \notin created[o.conn] THEN Rejects(o)
       ELSE /\ geomT' = [geomT EXCEPT ![o.conn] = {}]
            /\ Goto(o, "clearJson")
            /\ UNCHANGED <<hook, startup, created, jsonT, nextId>>

\* a variant of handleClear that also empties the exposed list itself
ClearJsonPatchesList(o) ==
    /\ o.pc = "clearJson"
    /\ Idle
    /\ jsonT' = [jsonT EXCEPT ![o.conn] = {}]
    /\ strokes' = <<>>
    /\ Goto(o, ReloadPc(o.spatial))
    /\ UNCHANGED <<dbConn, spatialLoaded, loading, startup, created, geomT, nextId>>

\* handleClear: await dbConn.query(`DELETE FROM strokes_json;`); then
\* reloadFromDB()
ClearJson(o) ==
    /\ o.pc = "clearJson"
    /\ Idle
    /\ jsonT' = [jsonT EXCEPT ![o.conn] = {}]
    /\ Goto(o, ReloadPc(o.spatial))
    /\ UNCHANGED <<hook, startup, created, geomT, nextId>>

\* reloadFromDB: if (spatialLoaded) { await dbConn.query(SELECT ... FROM strokes
\* ORDER BY created_at ASC), list.push for every row }
ReloadGeom(o) ==
    /\ o.pc = "reloadGeom"
    /\ Idle
    /\ IF "strokes" \notin created[o.conn] THEN Rejects(o)
       ELSE /\ ops' = Without(o) (+)
                      SetToBag({[o EXCEPT !.pc = "reloadJson",
                                          !.list = GeomStrokes(geomT[o.conn])]})
            /\ UNCHANGED <<hook, startup, store, nextId, last>>

\* reloadFromDB: await dbConn.query(SELECT ... FROM strokes_json ORDER BY
\* created_at ASC), list.push for every row, setStrokes(list)
ReloadJson(o) ==
    /\ o.pc = "reloadJson"
    /\ Idle
    /\ strokes' = o.list \o JsonStrokes(jsonT[o.conn])
    /\ ops' = Without(o)
    /\ UNCHANGED <<dbConn, spatialLoaded, loading, startup, store, nextId, last>>

\* ----------------------------------------------------------------- Next
Next ==
    \/ (StartEffect) /\ UNCHANGED <<surface, applied>>
    \/ (StrictRemount) /\ UNCHANGED <<surface, applied>>
    \/ (Cleanup) /\ UNCHANGED <<surface, applied>>
    \/ (\E r \in Runs : Open(r)) /\ UNCHANGED <<surface, applied>>
    \/ (\E r \in Runs : LoadSpatial(r)) /\ UNCHANGED <<surface, applied>>
    \/ (\E r \in Runs : CreateTables(r)) /\ UNCHANGED <<surface, applied>>
    \/ (handleUndo) /\ UNCHANGED <<surface, applied>>
    \/ (handleClear) /\ UNCHANGED <<surface, applied>>
    \/ (handleRefresh) /\ UNCHANGED <<surface, applied>>
    \/ (\E i \in Inputs : persistStroke(i)) /\ UNCHANGED <<surface, applied>>
    \/ (Return) /\ UNCHANGED <<surface, applied>>
    \/ (\E o \in InFlight : Insert(o)) /\ UNCHANGED <<surface, applied>>
    \/ (\E o \in InFlight : Update(o)) /\ UNCHANGED <<surface, applied>>
    \/ (\E o \in InFlight : InsertJ(o)) /\ UNCHANGED <<surface, applied>>
    \/ (\E o \in InFlight : UndoDelete(o)) /\ UNCHANGED <<surface, applied>>
    \/ (\E o \in InFlight : ClearGeom(o)) /\ UNCHANGED <<surface, applied>>
    \/ (\E o \in InFlight : ClearJson(o)) /\ UNCHANGED <<surface, applied>>
    \/ (\E o \in InFlight : ReloadGeom(o)) /\ UNCHANGED <<surface, applied>>
    \/ (\E o \in InFlight : ReloadJson(o)) /\ UNCHANGED <<surface, applied>>

Spec == Init /\ [][Next]_vars

\* --------------------------------------------- overlapping user operations
\* handleRefresh called while another operation is suspended at an await:
\* nothing in the hook keeps the Refresh button from being pressed then.
\* The model lets it overlap one operation.
handleRefreshOverlapping ==
    /\ Mounted
    /\ Idle
    /\ dbConn # NoConn
    /\ BagCardinality(ops) = 1
    /\ ops' = ops (+) SetToBag({Op("refresh", ReloadPc(spatialLoaded), dbConn,
                                   spatialLoaded, 0, 0)})
    /\ UNCHANGED <<hook, startup, store, nextId, last>>

NextRace ==
    \/ Next
    \/ handleRefreshOverlapping /\ UNCHANGED <<surface, applied>>

SpecRace == Init /\ [][NextRace]_vars

\* --------------------------------- a stroke finished during the startup
\* persistStroke called while another operation is suspended at an await
\* (the pointer is released before the reload of the previous stroke has
\* returned, or while a startup run is still at work)
persistStrokeOverlapping(i) ==
    /\ Mounted
    /\ Idle
    /\ ~PersistReturnsAtOnce(i)
    /\ BagCardinality(ops) = 1
    /\ nextId < MaxStrokes
    /\ ops' = ops (+) SetToBag({Op("persist",
                                   IF spatialLoaded THEN "insert" ELSE "insertJ",
                                   dbConn, spatialLoaded, i, nextId + 1)})
    /\ nextId' = nextId + 1
    /\ UNCHANGED <<hook, startup, store, last>>

\* the INSTALL/LOAD of a startup run returns while an operation is suspended
\* at an await: setSpatialLoaded and the reload effect of the render
LoadSpatialOverlapping(r) ==
    /\ pc[r] = "spatial"
    /\ Idle /\ UNCHANGED last
    /\ BagCardinality(ops) = 1
    /\ \E v \in BOOLEAN :
          /\ spatialLoaded' = v
          /\ ops' = AfterRender(ops, dbConn, v)
          /\ spatialOK' = [spatialOK EXCEPT ![r] = v]
    /\ pc' = [pc EXCEPT ![r] = "createTables"]
    /\ UNCHANGED <<dbConn, loading, strokes, started, cancelled, store, nextId>>

NextOverlap ==
    \/ Next
    \/ (\E i \in Inputs : persistStrokeOverlapping(i)) /\ UNCHANGED <<surface, applied>>
    \/ (\E r \in Runs : LoadSpatialOverlapping(r)) /\ UNCHANGED <<surface, applied>>

SpecOverlap == Init /\ [][NextOverlap]_vars

\* operations overlap as in SpecOverlap, except that nothing is started
\* while an undo is in flight: every undo runs from its call to the return
\* of its reload with no other operation at an await
NoUndoInFlight == ~\E o \in InFlight : o.kind = "undo"
NextUndoAlone ==
    \/ Next
    \/ (NoUndoInFlight /\ \E i \in Inputs : persistStrokeOverlapping(i))
          /\ UNCHANGED <<surface, applied>>
    \/ (NoUndoInFlight /\ \E r \in Runs : LoadSpatialOverlapping(r))
          /\ UNCHANGED <<surface, applied>>

SpecUndoAlone == Init /\ [][NextUndoAlone]_vars

\* ------------------------------------------------------- fair scheduling
\* React runs the effect once the component is mounted, and a continuation
\* whose promise has settled runs as soon as the call stack is empty.  The
\* handlers return at once, so however often the user calls them they cannot
\* postpone a continuation for ever: the steps of the startup runs and of
\* the operations in flight are strongly fair.  Nothing obliges the user to
\* call a handler, React to remount or the component to unmount.  (A startup
\* run has three awaits and at most MaxStrokes strokes are persisted, so no
\* continuation can keep another waiting for ever: fairness of the
\* continuations taken together is fairness of each.)
\* the strokes drawn while startup is watched: two points, not simplified
StrokesAtStartup == {3}
NextFair ==
    \/ (StartEffect) /\ UNCHANGED <<surface, applied>>
    \/ (StrictRemount) /\ UNCHANGED <<surface, applied>>
    \/ (Cleanup) /\ UNCHANGED <<surface, applied>>
    \/ (\E r \in Runs : Open(r)) /\ UNCHANGED <<surface, applied>>
    \/ (\E r \in Runs : LoadSpatial(r)) /\ UNCHANGED <<surface, applied>>
    \/ (\E r \in Runs : CreateTables(r)) /\ UNCHANGED <<surface, applied>>
    \/ (\E i \in StrokesAtStartup : persistStroke(i)) /\ UNCHANGED <<surface, applied>>
    \/ (\E i \in StrokesAtStartup : persistStrokeOverlapping(i))
          /\ UNCHANGED <<surface, applied>>
    \/ (Return) /\ UNCHANGED <<surface, applied>>
    \/ (\E o \in InFlight : Insert(o)) /\ UNCHANGED <<surface, applied>>
    \/ (\E o \in InFlight : InsertJ(o)) /\ UNCHANGED <<surface, applied>>
    \/ (\E o \in InFlight : ReloadGeom(o)) /\ UNCHANGED <<surface, applied>>
    \/ (\E o \in InFlight : ReloadJson(o)) /\ UNCHANGED <<surface, applied>>

Continuation ==
    /\ \/ \E r \in Runs : Open(r) \/ LoadSpatial(r) \/ CreateTables(r)
       \/ \E o \in InFlight : Insert(o) \/ InsertJ(o) \/ ReloadGeom(o) \/ ReloadJson(o)
    /\ UNCHANGED <<surface, applied>>
FairStartup ==
    /\ WF_vars(StartEffect /\ UNCHANGED <<surface, applied>>)
    /\ WF_vars(Return /\ UNCHANGED <<surface, applied>>)
    /\ SF_vars(Continuation)

SpecFair == Init /\ [][NextFair]_vars /\ FairStartup

\* ------------------------------------------------ rejected statements
\* insert.query / upd.query / insertJ.query of persistStroke rejects for a
\* reason of the Store's own (a geometry it does not accept, a failed
\* write): the statement changes no table.  Whether ST_GeomFromText takes
\* a LINESTRING text of fewer than two points is the Store's choice: both
\* outcomes, Insert and StatementRejects, are steps of the model.
StatementRejects(o) ==
    /\ o.kind = "persist"
    /\ o.pc \in {"insert", "update", "insertJ"}
    /\ Idle
    /\ Rejects(o)

NextReject ==
    \/ Next
    \/ (\E o \in InFlight : StatementRejects(o)) /\ UNCHANGED <<surface, applied>>

SpecReject == Init /\ [][NextReject]_vars

\* ------------------------------------------- strokes with non-finite points
\* persistStroke is also handed point lists with non-finite coordinates
NextNonFinite ==
    \/ NextReject
    \/ (\E i \in NonFiniteInputs : persistStroke(i)) /\ UNCHANGED <<surface, applied>>

SpecNonFinite == Init /\ [][NextNonFinite]_vars

\* ------------------------------------------------------ DrawingSurface
\* const MIN_DIST = 1.5
\* a variant with a threshold of 1
MIN_DIST_One == <<1, 1>>
MIN_DIST == <<3, 2>>

\* Math.hypot(dx, dy) >= m, for m >= 0
HypotAtLeast(dx, dy, m) ==
    AtLeast(Plus(Times(dx, dx), Times(dy, dy)), Times(m, m))

\* e.point of the pointer events: where the ray hits the plane, in world units
PointerPoints ==
    << <<Num(0), Num(0)>>, <<Num(1), Num(0)>>, <<Num(1), Num(1)>>, <<Num(2), Num(0)>> >>
Pointers == 1..Len(PointerPoints)

InitCapture ==
    /\ InitHook
    /\ view \in Views
    /\ enabled = TRUE
    /\ drawing = FALSE
    /\ ptsPxRef = <<>>
    /\ previewWorld = <<>>
    /\ onFinish = [calls |-> 0, ptsPx |-> <<>>]
    /\ pcdFileContents = <<>>
    /\ arg = NoArg
    /\ res = NoArg

\* the pointer event or prop change that was handled last
Handled(kind, i) ==
    /\ last' = [op |-> kind, inp |-> i]
    /\ UNCHANGED <<hook, startup, store, ops, nextId, view, pcdFileContents, applied>>

\* a variant of onPointerDown without `if (!enabled) return`
onPointerDownAlways(i) ==
    LET p == PointerPoints[i] IN
    /\ Handled("onPointerDown", i)
    /\ drawing' = TRUE
    /\ previewWorld' = << <<p[1], p[2], Num(0)>> >>
    /\ ptsPxRef' = <<worldToPx(view, p[1], p[2])>>
    /\ UNCHANGED <<enabled, onFinish>>

\* a variant of onPointerDown that keeps the points of a stroke in capture
onPointerDownContinues(i) ==
    LET p == PointerPoints[i] IN
    /\ Handled("onPointerDown", i)
    /\ IF ~enabled THEN UNCHANGED <<enabled, drawing, ptsPxRef, previewWorld, onFinish>>
       ELSE /\ drawing' = TRUE
            /\ previewWorld' = << <<p[1], p[2], Num(0)>> >>
            /\ ptsPxRef' = IF drawing /\ Len(ptsPxRef) < MaxPts
                           THEN Append(ptsPxRef, worldToPx(view, p[1], p[2]))
                           ELSE <<worldToPx(view, p[1], p[2])>>
            /\ UNCHANGED <<enabled, onFinish>>

onPointerDown(i) ==
    LET p == PointerPoints[i] IN
    /\ Handled("onPointerDown", i)
    /\ IF ~enabled THEN UNCHANGED <<enabled, drawing, ptsPxRef, previewWorld, onFinish>>
       ELSE /\ drawing' = TRUE
            /\ previewWorld' = << <<p[1], p[2], Num(0)>> >>
            /\ ptsPxRef' = <<worldToPx(view, p[1], p[2])>>
            /\ UNCHANGED <<enabled, onFinish>>

\* a variant of onPointerMove without `!drawing` in its guard
onPointerMoveAlways(i) ==
    LET p == PointerPoints[i]
        xy == worldToPx(view, p[1], p[2])
    IN
    /\ Handled("onPointerMove", i)
    /\ IF ~enabled THEN UNCHANGED <<enabled, drawing, ptsPxRef, previewWorld, onFinish>>
       ELSE IF \/ ptsPxRef = <<>>
               \/ HypotAtLeast(Minus(xy[1], ptsPxRef[Len(ptsPxRef)][1]),
                               Minus(xy[2], ptsPxRef[Len(ptsPxRef)][2]), MIN_DIST)
       THEN /\ Len(ptsPxRef) < MaxPts
            /\ ptsPxRef' = Append(ptsPxRef, xy)
            /\ previewWorld' = Append(previewWorld, <<p[1], p[2], Num(0)>>)
            /\ UNCHANGED <<enabled, drawing, onFinish>>
       ELSE UNCHANGED <<enabled, drawing, ptsPxRef, previewWorld, onFinish>>

onPointerMove(i) ==
    LET p == PointerPoints[i]
        xy == worldToPx(view, p[1], p[2])
    IN
    /\ Handled("onPointerMove", i)
    /\ IF ~drawing \/ ~enabled
       THEN UNCHANGED <<enabled, drawing, ptsPxRef, previewWorld, onFinish>>
       ELSE IF \/ ptsPxRef = <<>>
               \/ HypotAtLeast(Minus(xy[1], ptsPxRef[Len(ptsPxRef)][1]),
                               Minus(xy[2], ptsPxRef[Len(ptsPxRef)][2]), MIN_DIST)
       THEN /\ Len(ptsPxRef) < MaxPts
            /\ ptsPxRef' = Append(ptsPxRef, xy)
            /\ previewWorld' = Append(previewWorld, <<p[1], p[2], Num(0)>>)
            /\ UNCHANGED <<enabled, drawing, onFinish>>
       ELSE UNCHANGED <<enabled, drawing, ptsPxRef, previewWorld, onFinish>>

\* a variant of onPointerUp that empties the array it hands over
\* (ptsPxRef.current.length = 0, no slice())
onPointerUpNoCopy ==
    /\ Handled("onPointerUp", 0)
    /\ IF ~drawing \/ ~enabled
       THEN UNCHANGED <<enabled, drawing, ptsPxRef, previewWorld, onFinish>>
       ELSE /\ onFinish.calls < MaxFinished
            /\ drawing' = FALSE
            /\ ptsPxRef' = <<>>
            /\ previewWorld' = <<>>
            /\ onFinish' = [calls |-> onFinish.calls + 1, ptsPx |-> <<>>]
            /\ UNCHANGED enabled

\* onPointerUp up to its await: onFinish(ptsPx) is called with the copy
onPointerUp ==
    /\ Handled("onPointerUp", 0)
    /\ IF ~drawing \/ ~enabled
       THEN UNCHANGED <<enabled, drawing, ptsPxRef, previewWorld, onFinish>>
       ELSE /\ onFinish.calls < MaxFinished
            /\ drawing' = FALSE
            /\ ptsPxRef' = <<>>
            /\ previewWorld' = <<>>
            /\ onFinish' = [calls |-> onFinish.calls + 1, ptsPx |-> ptsPxRef]
            /\ UNCHANGED enabled

\* App renders DrawingSurface with enabled={interactionMode === 'draw'}
setEnabled(b) ==
    /\ b # enabled
    /\ Handled("setEnabled", 0)
    /\ enabled' = b
    /\ UNCHANGED <<drawing, ptsPxRef, previewWorld, onFinish>>

NextCapture ==
    \/ \E i \in Pointers : onPointerDown(i)
    \/ \E i \in Pointers : onPointerMove(i)
    \/ onPointerUp
    \/ \E b \in BOOLEAN : setEnabled(b)

SpecCapture == InitCapture /\ [][NextCapture]_vars

\* ------------------------------------------------ functions on their own
\* the coordinate mapping applied to a point of a canvas
Halves == {Frac(n, 2) : n \in -2..MaxHalves}
InitMapper ==
    /\ InitHook
    /\ InitSurface
    /\ arg \in [fn : {"map"}, view : Views, x : Halves, y : Halves]
    /\ res = NoArg

\* a pixel position is mapped as Scene does
ApplyPxToWorld ==
    /\ arg.fn = "map"
    /\ res' = [fn |-> "pxToWorld", out |-> pxToWorld(arg.view, arg.x, arg.y)]
    /\ UNCHANGED <<hook, startup, store, ops, nextId, last, surface, arg>>

\* a world position is mapped as DrawingSurface does
ApplyWorldToPx ==
    /\ arg.fn = "map"
    /\ res' = [fn |-> "worldToPx", out |-> worldToPx(arg.view, arg.x, arg.y)]
    /\ UNCHANGED <<hook, startup, store, ops, nextId, last, surface, arg>>

\* what one mapping returned is handed to the other
ApplyBack ==
    /\ res.fn \in {"pxToWorld", "worldToPx"}
    /\ res' = IF res.fn = "pxToWorld"
              THEN [fn |-> "worldToPx(pxToWorld)",
                    out |-> worldToPx(arg.view, res.out[1], res.out[2])]
              ELSE [fn |-> "pxToWorld(worldToPx)",
                    out |-> pxToWorld(arg.view, res.out[1], res.out[2])]
    /\ UNCHANGED <<hook, startup, store, ops, nextId, last, surface, arg>>

NextMapper ==
    \/ ApplyPxToWorld
    \/ ApplyWorldToPx
    \/ ApplyBack

SpecMapper == InitMapper /\ [][NextMapper]_vars

\* toWKT applied to a point list: coordinates are 1, 2 or not finite
WktPoints == {<<x, y>> : x \in {NaN, 1, 2}, y \in {NaN, 1, 2}}
InitWKT ==
    /\ InitHook
    /\ InitSurface
    /\ arg \in [fn : {"toWKT"},
                ptsPx : UNION {[1..n -> WktPoints] : n \in 0..MaxLen}]
    /\ res = NoArg

ApplyToWKT ==
    /\ arg.fn = "toWKT"
    /\ res' = [fn |-> "toWKT", out |-> toWKT(arg.ptsPx)]
    /\ UNCHANGED <<hook, startup, store, ops, nextId, last, surface, arg>>

SpecWKT == InitWKT /\ [][ApplyToWKT]_vars

\* the statements persistStroke issues after its guard, as a function of its
\* spatialLoaded, simplifyOn and strokeWidth: whether upd.query is called,
\* and the tolerance it is called with (tenths of a pixel)
InitSimplify ==
    /\ InitHook
    /\ InitSurface
    /\ arg \in [fn : {"persistStroke"}, spatialLoaded : BOOLEAN, simplifyOn : BOOLEAN,
                strokeWidth : (-MaxWidth)..MaxWidth]
    /\ res = NoArg

ApplySimplify ==
    /\ arg.fn = "persistStroke"
    /\ res' = IF arg.spatialLoaded
              THEN IF arg.simplifyOn
                   THEN [fn |-> "persistStroke", upd |-> TRUE,
                         out |-> Tolerance10(arg.strokeWidth)]
                   ELSE [fn |-> "persistStroke", upd |-> FALSE, out |-> 0]
              ELSE [fn |-> "persistStroke", upd |-> FALSE, out |-> 0]
    /\ UNCHANGED <<hook, startup, store, ops, nextId, last, surface, arg>>

SpecSimplify == InitSimplify /\ [][ApplySimplify]_vars

\* ------------------------------------------ reloadFromDB on rows of any kind
\* what the gj column (ST_AsGeoJSON(geom)) of a row of strokes can read: a
\* LineString, another GeoJSON object, or a text JSON.parse does not take
\* (toStr gives "" for a NULL)
GjTexts ==
    {[valid |-> TRUE, type |-> "LineString", coordinates |-> << <<0, 0>>, <<3, 4>> >>],
     [valid |-> TRUE, type |-> "Point", coordinates |-> << <<0, 0>> >>],
     [valid |-> FALSE, type |-> "", coordinates |-> <<>>]}
\* what the coords column of a row of strokes_json can read: an array, a
\* JSON value that is no array, or a text JSON.parse does not take
CoordsTexts ==
    {[valid |-> TRUE, isArray |-> TRUE, items |-> << <<1, 2>>, <<3, 4>> >>],
     [valid |-> TRUE, isArray |-> FALSE, items |-> <<>>],
     [valid |-> FALSE, isArray |-> FALSE, items |-> <<>>]}
\* the rows a query returns, in the order of ORDER BY created_at ASC: row i
\* of strokes has id i, row i of strokes_json has id MaxRows + 1 + i
RowsG == UNION {[1..n -> GjTexts] : n \in 0..MaxRows}
RowsJ == UNION {[1..n -> CoordsTexts] : n \in 0..MaxRows}
RowG(gjs, i) == [id |-> i, color |-> "#222222", width |-> 4, gj |-> gjs[i]]
RowJ(coords, i) ==
    [id |-> MaxRows + 1 + i, color |-> "#222222", width |-> 4, coords |-> coords[i]]

\* a variant whose JSON.parse of coords is outside the try block
reloadFromDBNoTry(spatial, gjs, coords) ==
    IF \/ spatial /\ \E i \in 1..Len(gjs) : ~gjs[i].valid
       \/ \E i \in 1..Len(coords) : ~coords[i].valid
    THEN [fn |-> "reloadFromDB", threw |-> TRUE, setStrokes |-> <<>>]
    ELSE [fn |-> "reloadFromDB", threw |-> FALSE,
          setStrokes |->
             (IF spatial
              THEN [i \in 1..Len(gjs) |->
                      [id |-> RowG(gjs, i).id, color |-> ReadColor(RowG(gjs, i).color),
                       width |-> ReadWidth(RowG(gjs, i).width),
                       ptsPx |-> parseLineStringFromGeoJSON(gjs[i])]]
              ELSE <<>>)
             \o [i \in 1..Len(coords) |-> JsonStroke(RowJ(coords, i))]]
\* reloadFromDB after its queries: const gj = JSON.parse(toStr(obj["gj"])) is
\* not inside a try block, so a text it does not take ends the function
\* with a SyntaxError before setStrokes; JSON.parse(coordsStr) is inside one
reloadFromDB(spatial, gjs, coords) ==
    IF spatial /\ \E i \in 1..Len(gjs) : ~gjs[i].valid
    THEN [fn |-> "reloadFromDB", threw |-> TRUE, setStrokes |-> <<>>]
    ELSE [fn |-> "reloadFromDB", threw |-> FALSE,
          setStrokes |->
             (IF spatial
              THEN [i \in 1..Len(gjs) |->
                      [id |-> RowG(gjs, i).id, color |-> ReadColor(RowG(gjs, i).color),
                       width |-> ReadWidth(RowG(gjs, i).width),
                       ptsPx |-> parseLineStringFromGeoJSON(gjs[i])]]
              ELSE <<>>)
             \o [i \in 1..Len(coords) |-> JsonStroke(RowJ(coords, i))]]

InitReload ==
    /\ InitHook
    /\ InitSurface
    /\ arg \in [fn : {"reloadFromDB"}, spatialLoaded : BOOLEAN, gjs : RowsG, coords : RowsJ]
    /\ res = NoArg

ApplyReload ==
    /\ arg.fn = "reloadFromDB"
    /\ res' = reloadFromDB(arg.spatialLoaded, arg.gjs, arg.coords)
    /\ UNCHANGED <<hook, startup, store, ops, nextId, last, surface, arg>>

SpecReload == InitReload /\ [][ApplyReload]_vars

\* ----------------------------------------- the columns of one row, read
\* what the color and width columns of a row can hold
ColorValues == {SqlNull, "", "#ff0000"}
WidthValues == {SqlNullNumber, NaN} \cup (0..MaxWidth)
InitRead ==
    /\ InitHook
    /\ InitSurface
    /\ arg \in [fn : {"read"}, table : {"strokes", "strokes_json"},
                color : ColorValues, width : WidthValues]
    /\ res = NoArg

\* the body of the loop of reloadFromDB over the rows of arg.table, for one
\* row: the stroke it pushes
ApplyRead ==
    /\ arg.fn = "read"
    /\ res' = IF arg.table = "strokes"
              THEN [fn |-> "read",
                    out |-> [id |-> 1, color |-> ReadColor(arg.color),
                             width |-> ReadWidth(arg.width),
                             ptsPx |-> parseLineStringFromGeoJSON(
                                          [type |-> "LineString",
                                           coordinates |-> << <<0, 0>>, <<3, 4>> >>])]]
              ELSE [fn |-> "read",
                    out |-> JsonStroke([id |-> 1, color |-> arg.color, width |-> arg.width,
                                        coords |-> JSONstringify(<< <<0, 0>>, <<3, 4>> >>)])]
    /\ UNCHANGED <<hook, startup, store, ops, nextId, last, surface, arg>>

SpecRead == InitRead /\ [][ApplyRead]_vars

\* --------------------------------- the prepared statements of persistStroke
\* One call of persistStroke, await by await: prepare, query and close of
\* each statement are steps of their own here, and each can reject.  res
\* holds where the call is and the statements that are prepared and not
\* closed.
InitStatements ==
    /\ InitHook
    /\ InitSurface
    /\ arg \in [fn : {"persistStroke"}, dbConn : {NoConn, 1}, length : 0..MaxLen,
                spatialLoaded : BOOLEAN, simplifyOn : BOOLEAN]
    /\ res = NoArg

At(pcs, stmt, open) == [fn |-> "persistStroke", pc |-> pcs, stmt |-> stmt, open |-> open]
\* the async function ends with the error of the await that rejected
Rejected(open) == At("rejected", "", open)

\* if (!dbConn || ptsPx.length < 2) return; if (spatialLoaded) ... else ...
CallPersistStroke ==
    /\ res = NoArg
    /\ res' = IF arg.dbConn = NoConn \/ arg.length < 2 THEN At("returned", "", {})
              ELSE IF arg.spatialLoaded THEN At("prepare", "insert", {})
              ELSE At("prepare", "insertJ", {})
    /\ UNCHANGED <<hook, startup, store, ops, nextId, last, surface, arg>>

\* const stmt = await dbConn.prepare(...)
PrepareStatement ==
    /\ res.fn = "persistStroke" /\ res.pc = "prepare"
    /\ \/ res' = At("query", res.stmt, res.open \cup {res.stmt})
       \/ res' = Rejected(res.open)
    /\ UNCHANGED <<hook, startup, store, ops, nextId, last, surface, arg>>

\* await stmt.query(...)
QueryStatement ==
    /\ res.fn = "persistStroke" /\ res.pc = "query"
    /\ \/ res' = At("close", res.stmt, res.open)
       \/ res' = Rejected(res.open)
    /\ UNCHANGED <<hook, startup, store, ops, nextId, last, surface, arg>>

\* await stmt.close(); then if (simplifyOn) the UPDATE, or reloadFromDB()
CloseStatement ==
    /\ res.fn = "persistStroke" /\ res.pc = "close"
    /\ \/ res' = IF res.stmt = "insert" /\ arg.simplifyOn
                 THEN At("prepare", "upd", res.open \ {res.stmt})
                 ELSE At("reload", "", res.open \ {res.stmt})
       \/ res' = Rejected(res.open)
    /\ UNCHANGED <<hook, startup, store, ops, nextId, last, surface, arg>>

\* await reloadFromDB()
ReloadAfterStatements ==
    /\ res.fn = "persistStroke" /\ res.pc = "reload"
    /\ \/ res' = At("returned", "", res.open)
       \/ res' = Rejected(res.open)
    /\ UNCHANGED <<hook, startup, store, ops, nextId, last, surface, arg>>

NextStatements ==
    \/ CallPersistStroke
    \/ PrepareStatement
    \/ QueryStatement
    \/ CloseStatement
    \/ ReloadAfterStatements

SpecStatements == InitStatements /\ [][NextStatements]_vars

\* ------------------------------------------------------ the point clouds
\* App keeps the texts of the loaded files in pcdFileContents; Scene renders
\* one PCDFromFile per text, and each PCDFromFile decodes its own text.
\* a file name is the sequence of its characters
toLowerCase(name) ==
    [k \in 1..Len(name) |->
        CASE name[k] = "P" -> "p" [] name[k] = "C" -> "c" [] name[k] = "D" -> "d"
          [] OTHER -> name[k]]
endsWith(name, suffix) ==
    /\ Len(name) >= Len(suffix)
    /\ SubSeq(name, Len(name) - Len(suffix) + 1, Len(name)) = suffix

\* event.target.files?.[0]: no file (an empty name), a file of another type,
\* a point cloud, a .PCD file whose text PCDLoader cannot parse, an empty file
NoFile == [name |-> <<>>, text |-> ""]
Files ==
    << NoFile,
       [name |-> <<"a", ".", "t", "x", "t">>, text |-> "VERSION 0.7 ascii"],
       [name |-> <<"a", ".", "p", "c", "d">>, text |-> "VERSION 0.7 ascii"],
       [name |-> <<"b", ".", "P", "C", "D">>, text |-> "VERSION 0.7 binary?"],
       [name |-> <<"c", ".", "p", "c", "d">>, text |-> ""] >>

\* PCDFromFile: loader.parse(arrayBuffer) returns the points or throws; the
\* catch logs the error and the component keeps rendering null
PCDLoaderParses(text) == text = "VERSION 0.7 ascii"
\* the clouds the scene shows: the PCDFromFile components that hold points
LoadedClouds(contents) == SelectSeq(contents, PCDLoaderParses)

\* the FileReader reads that have not called onload yet
ReadsInFlight ==
    BagCardinality([o \in {q \in InFlight : q.kind = "read"} |-> CopiesIn(o, ops)])

\* handleFileLoad: if (!file) return; if the name does not end with .pcd,
\* alert and return; else reader.readAsText(file).  The model keeps the list
\* and the reads in flight within MaxClouds texts.
handleFileLoad(f) ==
    LET file == Files[f] IN
    /\ Idle
    /\ IF file = NoFile \/ ~endsWith(toLowerCase(file.name), <<".", "p", "c", "d">>)
       THEN UNCHANGED <<ops, last>>
       ELSE /\ Len(pcdFileContents) + ReadsInFlight < MaxClouds
            /\ HasFree(ops)
            /\ ops' = ops (+) SetToBag({Op("read", "onload", NoConn, FALSE, f, 0)})
            /\ UNCHANGED last
    /\ UNCHANGED <<hook, startup, store, nextId, view, enabled, drawing, ptsPxRef,
                   previewWorld, onFinish, pcdFileContents, applied>>

\* a variant of reader.onload that replaces the list by the text read
onloadReplaces(o) ==
    /\ o.kind = "read" /\ o.pc = "onload"
    /\ Idle
    /\ pcdFileContents' = IF Files[o.inp].text # "" THEN <<Files[o.inp].text>>
                          ELSE pcdFileContents
    /\ ops' = Without(o)
    /\ UNCHANGED <<hook, startup, store, nextId, last, view, enabled, drawing,
                   ptsPxRef, previewWorld, onFinish, applied>>

\* reader.onload: if (content) setPcdFileContents(prev => [...prev, content])
onload(o) ==
    /\ o.kind = "read" /\ o.pc = "onload"
    /\ Idle
    /\ pcdFileContents' = IF Files[o.inp].text # ""
                          THEN Append(pcdFileContents, Files[o.inp].text)
                          ELSE pcdFileContents
    /\ ops' = Without(o)
    /\ UNCHANGED <<hook, startup, store, nextId, last, view, enabled, drawing,
                   ptsPxRef, previewWorld, onFinish, applied>>

\* handleClearPointClouds: setPcdFileContents([])
handleClearPointClouds ==
    /\ Idle
    /\ pcdFileContents' = <<>>
    /\ UNCHANGED <<hook, startup, store, ops, nextId, last, view, enabled, drawing,
                   ptsPxRef, previewWorld, onFinish, applied>>

\* the hook once one startup run has ended with the connection exposed and
\* the reload it causes has read the empty tables
InitReady ==
    \E ok \in BOOLEAN :
        /\ dbConn = 1
        /\ spatialLoaded = ok
        /\ loading = FALSE
        /\ strokes = <<>>
        /\ started = 1
        /\ pc = [r \in Runs |-> IF r = 1 THEN "done" ELSE "unborn"]
        /\ cancelled = [r \in Runs |-> FALSE]
        /\ spatialOK = [r \in Runs |-> r = 1 /\ ok]
        /\ created = [r \in Runs |-> IF r = 1 THEN TablesOf(r) ELSE {}]
        /\ geomT = [r \in Runs |-> {}]
        /\ jsonT = [r \in Runs |-> {}]
        /\ ops = EmptyBag
        /\ nextId = 0
        /\ last = NoCall

InitClouds ==
    /\ InitReady
    /\ InitSurface
    /\ arg = NoArg
    /\ res = NoArg

\* the strokes drawn while point clouds are loaded: a single point, and the
\* three points the simplify-update reduces
StrokesBesideClouds == {2, 4}

NextClouds ==
    \/ \E f \in 1..Len(Files) : handleFileLoad(f)
    \/ \E o \in InFlight : onload(o)
    \/ handleClearPointClouds
    \/ (handleUndo) /\ UNCHANGED <<surface, applied>>
    \/ (handleClear) /\ UNCHANGED <<surface, applied>>
    \/ (handleRefresh) /\ UNCHANGED <<surface, applied>>
    \/ (\E i \in StrokesBesideClouds : persistStroke(i)) /\ UNCHANGED <<surface, applied>>
    \/ (Return) /\ UNCHANGED <<surface, applied>>
    \/ (\E o \in InFlight : Insert(o)) /\ UNCHANGED <<surface, applied>>
    \/ (\E o \in InFlight : Update(o)) /\ UNCHANGED <<surface, applied>>
    \/ (\E o \in InFlight : InsertJ(o)) /\ UNCHANGED <<surface, applied>>
    \/ (\E o \in InFlight : UndoDelete(o)) /\ UNCHANGED <<surface, applied>>
    \/ (\E o \in InFlight : ClearGeom(o)) /\ UNCHANGED <<surface, applied>>
    \/ (\E o \in InFlight : ClearJson(o)) /\ UNCHANGED <<surface, applied>>
    \/ (\E o \in InFlight : ReloadGeom(o)) /\ UNCHANGED <<surface, applied>>
    \/ (\E o \in InFlight : ReloadJson(o)) /\ UNCHANGED <<surface, applied>>

SpecClouds == InitClouds /\ [][NextClouds]_vars

\* ============================================================== the claims
RowIds(rows) == {row.id : row \in rows}
IdsOf(list) == [i \in 1..Len(list) |-> list[i].id]
\* the operation o takes the step: it leaves the await it was suspended at
StepOf(o) == CopiesIn(o, ops') < CopiesIn(o, ops)
\* o is the only operation in flight
Alone(o) == BagCardinality(ops) = 1 /\ BagIn(o, ops)
\* the operations that are at an await after the step and were not before
Arrived == {p \in BagToSet(ops') : CopiesIn(p, ops') > CopiesIn(p, ops)}
PtsOf(i) == StrokeInputs[i].pts
\* the ids of a set of numbers in ascending order
RECURSIVE Ascending(_)
Ascending(S) ==
    IF S = {} THEN <<>>
    ELSE LET m == CHOOSE x \in S : \A y \in S : x <= y
         IN  <<m>> \o Ascending(S \ {m})
Greatest(S) == CHOOSE x \in S : \A y \in S : y <= x
\* the created_at of the row with the given id
CreatedAt(rows, id) == (CHOOSE row \in rows : row.id = id).created_at
\* the ids of list are those of rows, each once, by ascending created_at
ListsByCreatedAt(list, rows) ==
    /\ Len(list) = Cardinality(rows)
    /\ {list[i].id : i \in 1..Len(list)} = RowIds(rows)
    /\ \A i, j \in 1..Len(list) :
          i < j => CreatedAt(rows, list[i].id) < CreatedAt(rows, list[j].id)

\* ----------------------------------------------------------------------
\* C1: a persistStroke call with a point list of length 0 or 1 issues no
\* INSERT/UPDATE (no operation is started for it, and no persist operation
\* in flight ever carries such a list), and leaves both tables and the
\* exposed stroke list as they are, whatever dbConn and spatialLoaded are.
C1_ShortListIsNoOp ==
    /\ [][(last' # last /\ last'.op = "persist" /\ Len(PtsOf(last'.inp)) < 2)
            => UNCHANGED <<hook, store, ops, nextId>>]_vars
    /\ [](\A o \in InFlight : o.kind = "persist" => Len(PtsOf(o.inp)) >= 2)

\* a one-point list was handed to persistStroke while connected, with a row
\* in the Store and a stroke exposed
C1_Witness ==
    /\ last.op = "persist"
    /\ Len(PtsOf(last.inp)) = 1
    /\ dbConn # NoConn
    /\ strokes # <<>>
    /\ geomT[dbConn] \cup jsonT[dbConn] # {}

\* ----------------------------------------------------------------------
\* C2: a persistStroke that saw spatialLoaded = true inserts exactly one row,
\* with its newId, into table strokes and none into strokes_json; one that
\* saw spatialLoaded = false inserts exactly one row into strokes_json and
\* none into strokes; no other step of it adds a row.  Every reload reads
\* strokes_json, and reads strokes first when its spatialLoaded is true.
C2_WriteOneTableReadBoth ==
    [][/\ \A o \in InFlight :
            (o.kind = "persist" /\ StepOf(o)) =>
               LET g  == RowIds(geomT[o.conn])
                   g2 == RowIds(geomT'[o.conn])
                   j  == RowIds(jsonT[o.conn])
                   j2 == RowIds(jsonT'[o.conn])
                   goesOn == \E p \in Arrived : p.kind = "persist" /\ p.id = o.id
               IN  /\ o.pc = "insert" =>
                        /\ o.spatial
                        /\ j2 = j
                        /\ goesOn => (o.id \notin g /\ g2 = g \cup {o.id})
                        /\ ~goesOn => g2 = g
                   /\ o.pc = "insertJ" =>
                        /\ ~o.spatial
                        /\ g2 = g
                        /\ o.id \notin j /\ j2 = j \cup {o.id}
                   /\ o.pc \notin {"insert", "insertJ"} => (g2 = g /\ j2 = j)
       /\ \A o \in InFlight :
            (o.pc = "reloadJson" /\ StepOf(o)) =>
               {strokes'[i].id : i \in 1..Len(strokes')}
                  = {o.list[i].id : i \in 1..Len(o.list)} \cup RowIds(jsonT[o.conn])
       /\ \A p \in Arrived :
            (p.pc = "reloadJson" /\ p.spatial) =>
               \E o \in InFlight :
                  /\ o.pc = "reloadGeom" /\ StepOf(o) /\ o.conn = p.conn
                  /\ {p.list[i].id : i \in 1..Len(p.list)} = RowIds(geomT[p.conn])
      ]_vars

\* a stroke persisted with spatialLoaded = true is exposed: its row is in
\* table strokes, and strokes_json of the same database is empty
C2_Witness ==
    /\ dbConn # NoConn
    /\ spatialLoaded
    /\ Quiet
    /\ geomT[dbConn] # {}
    /\ jsonT[dbConn] = {}
    /\ IdsOf(strokes) = Ascending(RowIds(geomT[dbConn]))

\* ----------------------------------------------------------------------
\* C3: with no two operations overlapping, Undo deletes exactly the stroke
\* inserted last among those in the Store (the greatest id, ids being given
\* in call order), and the reload that ends it exposes the strokes that are
\* left, in the order they were inserted.
C3_UndoRemovesLastInserted ==
    [][\A o \in InFlight :
         (o.kind = "undo" /\ Alone(o) /\ StepOf(o)) =>
            LET before == RowIds(geomT[o.conn]) \cup RowIds(jsonT[o.conn])
                after  == RowIds(geomT'[o.conn]) \cup RowIds(jsonT'[o.conn])
            IN  /\ (o.pc = "undoDelete" /\ before # {}) =>
                      after = before \ {Greatest(before)}
                /\ o.pc = "reloadJson" => IdsOf(strokes') = Ascending(after)
      ]_vars

\* ----------------------------------------------------------------------
\* C4: when Clear, running alone, has issued its last DELETE on a database
\* whose two tables both held rows, both tables are empty, and the reload
\* that ends it exposes the empty list.
C4_ClearEmptiesBothTables ==
    [][\A o \in InFlight :
         (o.kind = "clear" /\ Alone(o) /\ StepOf(o)) =>
            /\ (/\ o.pc = "clearJson"
                /\ jsonT[o.conn] # {}
                /\ (o.spatial \/ geomT[o.conn] # {})) =>
                   (geomT'[o.conn] = {} /\ jsonT'[o.conn] = {})
            /\ o.pc = "reloadJson" => strokes' = <<>>
      ]_vars

\* ----------------------------------------------------------------------
\* C5: in fallback mode (spatialLoaded = false), when the reload that ends a
\* persistStroke of at least two finite points returns and the row is still
\* in strokes_json, the exposed list holds a stroke with that id whose
\* ptsPx, color and width are the ones that were handed in.
C5_FallbackRoundTrip ==
    [][\A o \in InFlight :
         (/\ o.kind = "persist" /\ ~o.spatial
          /\ o.pc = "reloadJson" /\ StepOf(o)
          /\ o.id \in RowIds(jsonT[o.conn])) =>
            \E i \in 1..Len(strokes') :
               strokes'[i] = [id     |-> o.id,
                              color  |-> StrokeInputs[o.inp].color,
                              width  |-> StrokeInputs[o.inp].width,
                              ptsPx  |-> PtsOf(o.inp)]
      ]_vars

\* the three-point red stroke of width 4 went through strokes_json and is
\* exposed as it was drawn
C5_Witness ==
    /\ dbConn # NoConn
    /\ ~spatialLoaded
    /\ Quiet
    /\ jsonT[dbConn] # {}
    /\ \E i \in 1..Len(strokes) :
          /\ strokes[i].ptsPx = << <<0, 0>>, <<5, 1>>, <<10, 0>> >>
          /\ strokes[i].color = "#ff0000"
          /\ strokes[i].width = 4

C7_NoConnectionNoEffect ==
    dbConn = NoConn =>
       /\ ops = EmptyBag
       /\ strokes = <<>>
       /\ nextId = 0
       /\ \A db \in Runs : geomT[db] = {} /\ jsonT[db] = {}

\* Undo was called with dbConn null, after the database was opened
C7_Witness ==
    /\ dbConn = NoConn
    /\ last.op \in {"undo", "clear", "refresh", "persist"}
    /\ \E r \in Runs : pc[r] = "createTables" /\ ~cancelled[r]

\* ----------------------------------------------------------------------
\* C8: once dbConn is exposed, spatialLoaded does not change any more.
C8_SpatialLoadedFixedOnceExposed ==
    [][dbConn # NoConn => spatialLoaded' = spatialLoaded]_vars

\* ----------------------------------------------------------------------
\* C9: a step of a startup run whose effect has been cleaned up changes
\* none of dbConn, spatialLoaded, loading and strokes.
C9_CancelledRunIsSilent ==
    [][\A r \in Runs :
         (cancelled[r] /\ pc'[r] # pc[r]) => UNCHANGED hook]_vars

\* ----------------------------------------------------------------------
\* C10 (as stated): whenever loading is false and the connection is exposed,
\* the initial reload has completed: no reload started by the exposure is
\* still in flight.
C10_ReadyOnlyAfterInitialReload ==
    (~loading /\ dbConn # NoConn) =>
       \A o \in InFlight : o.kind # "effect"

\* C10 (amended): loading is false only when a run that was not cleaned up
\* has ended; if that run ended well, its connection is exposed and its
\* tables exist.  loading becomes false in the very step that exposes the
\* connection, and that step starts the initial reload, which is still in
\* flight then.
C10_ReadyOnceConnectionExposed ==
    /\ [](~loading =>
            \E r \in Runs :
               /\ ~cancelled[r]
               /\ \/ pc[r] = "failed" /\ dbConn = NoConn
                  \/ /\ pc[r] = "done"
                     /\ dbConn = r
                     /\ "strokes_json" \in created[r]
                     /\ spatialOK[r] => "strokes" \in created[r])
    /\ [][(loading /\ ~loading' /\ dbConn' # NoConn) =>
            /\ dbConn = NoConn
            /\ \E o \in BagToSet(ops') :
                  /\ o.kind = "effect" /\ o.conn = dbConn'
                  /\ o.spatial = spatialLoaded']_vars

\* the connection has just been exposed: loading is false, and the initial
\* reload has not yet returned
C10_Witness ==
    /\ ~loading
    /\ dbConn # NoConn
    /\ \E o \in InFlight : o.kind = "effect" /\ o.conn = dbConn
    /\ strokes = <<>>

\* ----------------------------------------------------------------------
\* C11 (as stated): when _db.instantiate / _db.connect rejects in a run that
\* was not cleaned up, loading is still true and dbConn is still null.
C11_OpenFailureKeepsLoading ==
    [][\A r \in Runs :
         (pc[r] = "open" /\ pc'[r] = "failed" /\ ~cancelled[r]) =>
            (loading' /\ dbConn' = NoConn)]_vars

\* C11 (amended): when opening the Store fails, dbConn stays as it is (null
\* for the current run) and nothing of the Store or of the exposed list
\* changes; the finally block sets
\* loading to false unless the run was cleaned up; a failed run stays failed
\* and no further run is started.  So after the failure of the current run
\* dbConn is null and loading is false.
C11_OpenFailureEndsLoading ==
    /\ [][\A r \in Runs :
            (pc[r] = "open" /\ pc'[r] = "failed") =>
               /\ loading' = (cancelled[r] /\ loading)
               /\ UNCHANGED <<dbConn, spatialLoaded, strokes, store, ops, started>>]_vars
    /\ [][\A r \in Runs :
            pc[r] = "failed" => (pc'[r] = "failed" /\ started' = started)]_vars
    /\ [](\A r \in Runs :
            (r = started /\ pc[r] = "failed" /\ ~cancelled[r]) =>
               (dbConn = NoConn /\ ~loading))

\* the only run failed before any table was created, and a stroke was handed
\* to persistStroke afterwards
C11_Witness ==
    /\ started = 1
    /\ pc[1] = "failed"
    /\ ~cancelled[1]
    /\ created[1] = {}
    /\ ~loading
    /\ dbConn = NoConn
    /\ last.op = "persist"

\* ----------------------------------------------------------------------
\* C12: a rejected INSTALL/LOAD spatial does not end the run: the run goes on
\* to create its tables with spatialLoaded set to false; it creates
\* strokes_json and never strokes, whose rows stay empty in its database;
\* and, unless cleaned up, it ends with its connection exposed and loading
\* false.
C12_SpatialFailureIsNotFatal ==
    /\ [][\A r \in Runs :
            (pc[r] = "spatial" /\ pc'[r] # "spatial") =>
               /\ pc'[r] = "createTables"
               /\ ~spatialOK'[r] => ~spatialLoaded'
               /\ UNCHANGED <<dbConn, loading, store>>]_vars
    /\ [](\A r \in Runs :
            (pc[r] \in {"createTables", "done", "failed"} /\ ~spatialOK[r]) =>
               /\ "strokes" \notin created[r]
               /\ geomT[r] = {}
               /\ pc[r] = "done" =>
                    /\ created[r] = {"strokes_json"}
                    /\ ~cancelled[r] => (dbConn = r /\ ~loading))

\* the run whose LOAD spatial was rejected exposed its connection, and a
\* stroke was stored in strokes_json
C12_Witness ==
    \E r \in Runs :
       /\ pc[r] = "done"
       /\ ~spatialOK[r]
       /\ ~cancelled[r]
       /\ dbConn = r
       /\ ~loading
       /\ ~spatialLoaded
       /\ jsonT[r] # {}

\* ----------------------------------------------------------------------
\* C13: in one persistStroke call the UPDATE and the reload start only when
\* the INSERT has been executed, and each step reads the tables as they are
\* then: the row of the call is in its table when the INSERT returns, the
\* UPDATE does not remove it, the geometry query lists it if it is still
\* there, and the list the call exposes holds it if the queries found it.  So the exposed list
\* contains the new stroke unless another operation deleted its row in
\* between.
C13_ReloadSeesOwnInsert ==
    [][/\ \A p \in Arrived :
            (p.kind = "persist" /\ p.pc \in {"update", "reloadGeom", "reloadJson"}) =>
               \E o \in InFlight :
                  /\ o.kind = "persist" /\ o.id = p.id /\ StepOf(o)
                  /\ p.pc = "update" => o.pc = "insert"
                  /\ o.pc = "insert" => p.id \in RowIds(geomT'[p.conn])
                  /\ o.pc = "update" =>
                        (o.id \in RowIds(geomT[o.conn]) =>
                            p.id \in RowIds(geomT'[p.conn]))
                  /\ o.pc = "insertJ" => p.id \in RowIds(jsonT'[p.conn])
                  /\ o.pc = "reloadGeom" =>
                        (o.id \in RowIds(geomT[o.conn]) =>
                            o.id \in {p.list[i].id : i \in 1..Len(p.list)})
       /\ \A o \in InFlight :
            (o.kind = "persist" /\ o.pc = "reloadJson" /\ StepOf(o)) =>
               ((\/ o.id \in {o.list[i].id : i \in 1..Len(o.list)}
                 \/ o.id \in RowIds(jsonT[o.conn])) =>
                   o.id \in {strokes'[i].id : i \in 1..Len(strokes')})
       /\ \A o \in InFlight :
            (/\ o.kind = "persist" /\ o.pc = "reloadJson" /\ StepOf(o)
             /\ o.id \in RowIds(IF o.spatial THEN geomT[o.conn] ELSE jsonT[o.conn])) =>
               o.id \in {strokes'[i].id : i \in 1..Len(strokes')}
      ]_vars

\* the latest persistStroke, with simplifyOn, has returned and its stroke is
\* the last of the exposed list
C13_Witness ==
    /\ dbConn # NoConn
    /\ Quiet
    /\ nextId = 2
    /\ Len(strokes) = 2
    /\ strokes[2].id = nextId
    /\ strokes[2].color = "#ff0000"

\* ----------------------------------------------------------------------
\* what reloadFromDB returns for the current contents of database db
Reloaded(db, spatial) ==
    (IF spatial THEN GeomStrokes(geomT[db]) ELSE <<>>) \o JsonStrokes(jsonT[db])

C19_MappingRoundTrip ==
    /\ res.fn \in {"worldToPx(pxToWorld)", "pxToWorld(worldToPx)"} =>
          res.out = <<arg.x, arg.y>>
    /\ res.fn = "pxToWorld" =>
          LET cx == Over(arg.view.size.width, Num(2))
              cy == Over(arg.view.size.height, Num(2))
          IN  /\ (res.out[1] = Num(0)) = (arg.x = cx)
              /\ (res.out[2] = Num(0)) = (arg.y = cy)
              /\ (res.out[2][1] > 0) = (~AtLeast(arg.y, cy))
              /\ (res.out[1][1] > 0) = (~AtLeast(cx, arg.x))

\* the pixel (5/2, 1/2) of the 12 x 6 canvas went to the world and came back
C19_Witness ==
    /\ res.fn = "worldToPx(pxToWorld)"
    /\ arg.view = View(12, 6, 4, 3)
    /\ arg.x = Frac(5, 2)
    /\ arg.y = Frac(1, 2)
    /\ res.out = <<Frac(5, 2), Frac(1, 2)>>

\* ----------------------------------------------------------------------
\* the indices of the points of a list whose two coordinates are finite
FiniteAt(ptsPx) ==
    {i \in 1..Len(ptsPx) : ptsPx[i][1] # NaN /\ ptsPx[i][2] # NaN}
\* the j-th of a set of indices, in ascending order
Nth(S, j) == CHOOSE i \in S : Cardinality({h \in S : h < i}) = j - 1

\* C20: toWKT returns "LINESTRING(" ... ")" holding, for exactly the points
\* with two finite coordinates and in their order, "x y", with ", " between
\* two points and nothing else.
C20_WKTKeepsFinitePointsInOrder ==
    res.fn = "toWKT" =>
       LET keep == FiniteAt(arg.ptsPx)
           k == Cardinality(keep)
           out == res.out
       IN  /\ Len(out) = IF k = 0 THEN 2 ELSE 4 * k + 1
           /\ out[1] = "LINESTRING("
           /\ out[Len(out)] = ")"
           /\ \A j \in 1..k :
                 /\ out[4 * j - 2] = ToString(arg.ptsPx[Nth(keep, j)][1])
                 /\ out[4 * j - 1] = " "
                 /\ out[4 * j] = ToString(arg.ptsPx[Nth(keep, j)][2])
                 /\ j < k => out[4 * j + 1] = ", "

\* toWKT([[1,2],[NaN,1],[2,1]]) returned LINESTRING(1 2, 2 1)
C20_Witness ==
    /\ res.fn = "toWKT"
    /\ arg.ptsPx = << <<1, 2>>, <<NaN, 1>>, <<2, 1>> >>
    /\ res.out = <<"LINESTRING(", "1", " ", "2", ", ", "2", " ", "1", ")">>

\* ----------------------------------------------------------------------
\* the square of the pixel distance of two points is at least 1.5 * 1.5
Apart(p, q) ==
    LET dx == Minus(q[1], p[1])
        dy == Minus(q[2], p[2])
        d2 == Plus(Times(dx, dx), Times(dy, dy))
    IN  4 * d2[1] >= 9 * d2[2]
Decimated(list) == \A i \in 1..(Len(list) - 1) : Apart(list[i], list[i + 1])
\* the pixel position of the pointer event handled last
PointerPx == worldToPx(view, PointerPoints[last'.inp][1], PointerPoints[last'.inp][2])
kept == <<drawing, ptsPxRef, previewWorld, onFinish>>

\* C15: two consecutive points of ptsPxRef.current, and of every list handed
\* to onFinish, are at pixel distance >= 1.5; a pointer-move closer than
\* 1.5 to the last accumulated point leaves the accumulator as it is.
C15_Decimation ==
    /\ [](Decimated(ptsPxRef) /\ Decimated(onFinish.ptsPx))
    /\ [][(/\ last'.op = "onPointerMove"
           /\ ptsPxRef # <<>>
           /\ ~Apart(ptsPxRef[Len(ptsPxRef)], PointerPx)) =>
              ptsPxRef' = ptsPxRef]_vars

\* at one pixel per world unit, a move to a point 1 pixel (and not 1.5)
\* from the last accumulated one was handled during a stroke of two points
C15_Witness ==
    /\ view = View(8, 8, 8, 8)
    /\ drawing
    /\ enabled
    /\ last = [op |-> "onPointerMove", inp |-> 2]
    /\ ptsPxRef = <<worldToPx(view, Num(0), Num(0)), worldToPx(view, Num(2), Num(0))>>

\* ----------------------------------------------------------------------
\* C16: onPointerUp while drawing and enabled sets drawing to false, empties
\* ptsPxRef.current and calls onFinish once with the points accumulated,
\* whatever their number; no other event calls onFinish or changes the list
\* that was handed over.
C16_PointerUpHandsOver ==
    /\ [][(last'.op = "onPointerUp" /\ drawing /\ enabled) =>
            /\ ~drawing'
            /\ ptsPxRef' = <<>>
            /\ onFinish' = [calls |-> onFinish.calls + 1, ptsPx |-> ptsPxRef]]_vars
    /\ [][onFinish' # onFinish =>
            (last'.op = "onPointerUp" /\ drawing /\ enabled)]_vars

\* a list of one point was handed to onFinish, and a new stroke has been
\* started since
C16_Witness ==
    /\ onFinish.calls = 1
    /\ Len(onFinish.ptsPx) = 1
    /\ drawing
    /\ Len(ptsPxRef) = 2
    /\ ptsPxRef[1] # onFinish.ptsPx[1]

\* ----------------------------------------------------------------------
\* C17: while drawing is false, onPointerMove and onPointerUp change nothing
\* and call nothing, and ptsPxRef.current is empty; onFinish is called only
\* from drawing = true, which only onPointerDown sets.
C17_IdleIgnoresMoveAndUp ==
    /\ [][(~drawing /\ last'.op \in {"onPointerMove", "onPointerUp"}) =>
            UNCHANGED kept]_vars
    /\ [](~drawing => (ptsPxRef = <<>> /\ previewWorld = <<>>))
    /\ [][onFinish'.calls # onFinish.calls => (drawing /\ ~drawing')]_vars
    /\ [][(~drawing /\ drawing') => last'.op = "onPointerDown"]_vars

\* after one stroke, a pointer-move was handled with drawing = false
C17_Witness ==
    /\ ~drawing
    /\ enabled
    /\ onFinish.calls = 1
    /\ last.op = "onPointerMove"

\* ----------------------------------------------------------------------
\* C18: while enabled is false, onPointerDown, onPointerMove and onPointerUp
\* change neither drawing nor the accumulator and call nothing; the change
\* of enabled itself does not either.
C18_DisabledIgnoresEvents ==
    /\ [][(~enabled /\ last'.op \in {"onPointerDown", "onPointerMove", "onPointerUp"})
            => UNCHANGED kept]_vars
    /\ [][last'.op = "setEnabled" => UNCHANGED kept]_vars

\* a pointer-up was handled while disabled in the middle of a stroke: the
\* stroke is still being drawn and nothing was handed over
C18_Witness ==
    /\ ~enabled
    /\ drawing
    /\ Len(ptsPxRef) = 2
    /\ onFinish.calls = 0
    /\ last.op = "onPointerUp"

C22_NoConnectionIsReported ==
    \A i \in Inputs :
       Len(PtsOf(i)) >= 2 => last # [op |-> "persist", inp |-> i]

\* C22 (amended): persistStroke returns at once and normally only when it has
\* fewer than two points or no connection is open; while no connection is
\* open no handler call ends in a rejection, and a call changes nothing of
\* the hook and the Store, starts no operation and gives out no id; after
\* the call the caller goes on as after any call that succeeded.
C22_NoConnectionReturnsSilently ==
    /\ [](\A i \in Inputs :
            (Len(PtsOf(i)) >= 2 /\ last = [op |-> "persist", inp |-> i]) =>
               dbConn = NoConn)
    /\ [][(dbConn = NoConn /\ last' # last) =>
            /\ last'.op # "rejects"
            /\ UNCHANGED <<hook, store, ops, nextId>>
            /\ last.op = "persist" => last' = NoCall]_vars

\* a two-point stroke was handed to persistStroke after the database was
\* opened and before its connection is exposed: the call has returned
C22_Witness ==
    /\ last = [op |-> "persist", inp |-> 3]
    /\ Len(PtsOf(3)) >= 2
    /\ dbConn = NoConn
    /\ \E r \in Runs : pc[r] = "createTables" /\ ~cancelled[r]

\* ----------------------------------------------------------------------
\* C23: every row of table strokes has a geometry of at least two points
\* and every row of strokes_json a coords array of at least two points.
C23_StoredStrokesHaveTwoPoints ==
    \A db \in Runs :
       /\ \A row \in geomT[db] : Len(row.geom.coordinates) >= 2
       /\ \A row \in jsonT[db] : Len(ParseCoords(row.coords)) >= 2

\* ----------------------------------------------------------------------
\* C24: the exposed list is ordered by created_at ascending as a whole: of
\* two exposed strokes whose rows are in the Store, whatever their tables,
\* the one listed first has the smaller created_at.
C24_ListOrderedByCreatedAt ==
    dbConn # NoConn =>
       LET rows == geomT[dbConn] \cup jsonT[dbConn] IN
       \A i, j \in 1..Len(strokes) :
          (i < j /\ strokes[i].id \in RowIds(rows) /\ strokes[j].id \in RowIds(rows)) =>
             CreatedAt(rows, strokes[i].id) < CreatedAt(rows, strokes[j].id)

\* ----------------------------------------------------------------------
\* C25: the DELETE of an undo removes exactly one row, one of greatest
\* created_at, from the table its spatialLoaded selects (strokes if true,
\* strokes_json if false) when that table holds rows, and none when it holds
\* none; it leaves the other table as it is and ends without an error (the
\* undo goes on to its reload), whatever the other table holds.
C25_UndoDeletesOneActiveRow ==
    [][\A o \in InFlight :
         (o.kind = "undo" /\ o.pc = "undoDelete" /\ StepOf(o)) =>
            LET active  == IF o.spatial THEN geomT[o.conn] ELSE jsonT[o.conn]
                active2 == IF o.spatial THEN geomT'[o.conn] ELSE jsonT'[o.conn]
            IN  /\ IF o.spatial THEN jsonT' = jsonT ELSE geomT' = geomT
                /\ \E p \in Arrived : p.kind = "undo" /\ p.pc = ReloadPc(o.spatial)
                /\ last' # [op |-> "rejects", inp |-> o.id]
                /\ active = {} => active2 = {}
                /\ active # {} =>
                      \E row \in active :
                         /\ \A q \in active : q.created_at <= row.created_at
                         /\ active2 = active \ {row}
      ]_vars

\* ----------------------------------------------------------------------
\* C26: a stroke that was in progress when the mode left draw is abandoned.
\* The case the claim names: the mode has just been switched back to draw
\* with drawing still set (it was set when the mode left draw, no event
\* changes it while disabled) and the pointer is released: nothing is handed
\* to onFinish, the points of the buffer being those of before the switch.
C26_AbandonedStrokeIsNeverEmitted ==
    [][(/\ last.op = "setEnabled" /\ enabled /\ drawing
        /\ last'.op = "onPointerUp") =>
          onFinish' = onFinish]_vars

\* ----------------------------------------------------------------------
\* the row of rows with the given id
RowOf(rows, id) == CHOOSE row \in rows : row.id = id
\* the operation of the given kinds that takes the step
Stepping(kinds) == {o \in InFlight : o.kind \in kinds /\ StepOf(o)}

\* C27: a row that stays in its table keeps its id, color, width and
\* created_at; a row of strokes_json keeps its coords, which are the captured
\* points whatever simplifyOn is; the geometry of a row of strokes changes
\* only in the UPDATE step of the persistStroke that inserted it, which that
\* call takes once, next after its INSERT, and only with simplifyOn; a
\* fallback persistStroke has no UPDATE step.  A row disappears only in a
\* DELETE step of an undo or a clear, and a row appears only in the INSERT
\* step of the persistStroke with its id.
C27_RowsAreImmutable ==
    [][\A db \in Runs :
         /\ \A row \in jsonT[db] :
               row \in jsonT'[db] \/ Stepping({"undo", "clear"}) # {}
         /\ \A row \in jsonT'[db] :
               \/ row \in jsonT[db]
               \/ \E o \in Stepping({"persist"}) :
                     /\ o.pc = "insertJ" /\ o.id = row.id /\ o.conn = db
                     /\ row.id \notin RowIds(jsonT[db])
                     /\ ParseCoords(row.coords) = PtsOf(o.inp)
                     /\ \A p \in Arrived : p.id = o.id => p.pc # "update"
         /\ \A row \in geomT[db] :
               \/ row.id \in RowIds(geomT'[db])
               \/ Stepping({"undo", "clear"}) # {}
         /\ \A row \in geomT'[db] :
               \/ row \in geomT[db]
               \/ /\ row.id \notin RowIds(geomT[db])
                  /\ \E o \in Stepping({"persist"}) :
                        o.pc = "insert" /\ o.id = row.id /\ o.conn = db
               \/ /\ row.id \in RowIds(geomT[db])
                  /\ row = [RowOf(geomT[db], row.id) EXCEPT !.geom = row.geom]
                  /\ \E o \in Stepping({"persist"}) :
                        /\ o.pc = "update" /\ o.id = row.id /\ o.conn = db
                        /\ StrokeInputs[o.inp].simplifyOn
                        /\ \A p \in Arrived :
                              p.id = o.id => p.pc \in {"reloadGeom", "reloadJson"}
      ]_vars

\* the three-point stroke was persisted with simplifyOn: its row of table
\* strokes has lost the middle point and kept its color and width
C27_Witness ==
    /\ dbConn # NoConn
    /\ Quiet
    /\ \E row \in geomT[dbConn] :
          /\ row.geom.coordinates = << <<0, 0>>, <<10, 0>> >>
          /\ row.color = "#ff0000"
          /\ row.width = 4

\* ----------------------------------------------------------------------
\* C28: upd.query is called only with simplifyOn and spatialLoaded both
\* true, and its tolerance (in tenths) is max(0, min(3 * width, 30)): it
\* lies in 0..30, is 3 * width for 0 <= width <= 10, 30 for width >= 10 and
\* 0 for width < 0.
C28_ToleranceIsClamped ==
    (res.fn = "persistStroke" /\ res.upd) =>
       LET w == arg.strokeWidth IN
       /\ arg.simplifyOn /\ arg.spatialLoaded
       /\ res.out = Max(0, Min(3 * w, 30))
       /\ res.out >= 0 /\ res.out <= 30
       /\ (0 <= w /\ w <= 10) => res.out = 3 * w
       /\ w >= 10 => res.out = 30
       /\ w < 0 => res.out = 0

\* the simplify-update was issued for a stroke of negative width, with
\* tolerance 0
C28_Witness ==
    /\ res.fn = "persistStroke" /\ res.upd
    /\ arg.strokeWidth = -1
    /\ res.out = 0

\* ----------------------------------------------------------------------
\* C29: a reload that gets as far as the rows of strokes_json calls
\* setStrokes with one stroke for every row of strokes_json, in the order of
\* the rows and after the strokes of table strokes: a row whose coords text
\* does not parse, or parses to something that is no array, gives a stroke
\* with ptsPx = [], every other row gives its points.  The loop over the
\* rows of strokes_json never ends the reload.
C29_BadCoordsGiveEmptyPoints ==
    res.fn = "reloadFromDB" =>
       LET bad == arg.spatialLoaded /\ \E i \in 1..Len(arg.gjs) : ~arg.gjs[i].valid
           g   == IF arg.spatialLoaded THEN Len(arg.gjs) ELSE 0
       IN  /\ res.threw <=> bad
           /\ ~res.threw =>
                 /\ Len(res.setStrokes) = g + Len(arg.coords)
                 /\ \A i \in 1..Len(arg.coords) :
                       /\ res.setStrokes[g + i].id = RowJ(arg.coords, i).id
                       /\ res.setStrokes[g + i].ptsPx =
                             IF arg.coords[i].valid /\ arg.coords[i].isArray
                             THEN arg.coords[i].items ELSE <<>>

\* a reload listed a row whose coords did not parse, with no points, and
\* after it a row with its two points
C29_Witness ==
    /\ res.fn = "reloadFromDB"
    /\ ~res.threw
    /\ Len(arg.coords) = 2
    /\ ~arg.coords[1].valid
    /\ res.setStrokes[Len(res.setStrokes) - 1].ptsPx = <<>>
    /\ res.setStrokes[Len(res.setStrokes)].ptsPx = << <<1, 2>>, <<3, 4>> >>

\* ----------------------------------------------------------------------
\* C30: a reload completes whatever the gj of a row of table strokes reads:
\* setStrokes is called with one stroke for every row read.
C30_BadGeometryRowIsContained ==
    res.fn = "reloadFromDB" =>
       /\ ~res.threw
       /\ Len(res.setStrokes) =
             (IF arg.spatialLoaded THEN Len(arg.gjs) ELSE 0) + Len(arg.coords)

\* ----------------------------------------------------------------------
\* C31: the stroke a reload builds from a row has a finite width, which is
\* 3 when the width column is NULL or not finite, and a color that is not
\* empty, which is the default color when the color column is NULL or "".
C31_DefaultsOnRead ==
    res.fn = "read" =>
       /\ IsFinite(res.out.width)
       /\ arg.width \in {SqlNullNumber, NaN} => res.out.width = DefaultWidth
       /\ res.out.color # ""
       /\ arg.color \in {SqlNull, ""} => res.out.color = DefaultColor

\* ----------------------------------------------------------------------
\* C32: when persistStroke has finished, by returning or with an error, no
\* statement it prepared is still open.
C32_StatementsAreClosed ==
    (res.fn = "persistStroke" /\ res.pc \in {"returned", "rejected"}) =>
       res.open = {}

\* ----------------------------------------------------------------------
\* C33: the INSERT and the UPDATE of one persistStroke are one transaction:
\* when the call has ended with an error, no row with its id is in table
\* strokes; and when a reload queries table strokes, no row of it belongs
\* to a persistStroke that is between its INSERT and its UPDATE.
C33_InsertAndSimplifyAreAtomic ==
    /\ []((last.op = "rejects" /\ last.inp > 0) =>
            \A db \in Runs : last.inp \notin RowIds(geomT[db]))
    /\ [][\A o \in InFlight :
            (o.pc = "reloadGeom" /\ StepOf(o)) =>
               ~\E q \in InFlight :
                   /\ q.kind = "persist" /\ q.pc = "update" /\ q.conn = o.conn
                   /\ q.id \in RowIds(geomT[o.conn])]_vars

\* ----------------------------------------------------------------------
\* C34: of the two tables of a database, at least one holds no row.
C34_OneTableIsWritten ==
    \A db \in Runs : geomT[db] = {} \/ jsonT[db] = {}

\* C35: point clouds and strokes are independent.  A step of the point-cloud
\* handlers (a file read starts or ends, the list of loaded texts changes)
\* issues no Store call and changes neither the tables nor the exposed stroke
\* list; when the text a read delivers fails to decode, the clouds loaded
\* before stay in the list, in place, and the clouds the scene shows are the
\* same; and a step that issues or ends a Store call, or changes a table or
\* the exposed list, does not change the list of loaded texts.
StoreCalls(bag) ==
    [o \in {q \in BagToSet(bag) : q.kind # "read"} |-> CopiesIn(o, bag)]
CloudStep ==
    \/ pcdFileContents' # pcdFileContents
    \/ \E o \in BagToSet(ops) \cup BagToSet(ops') :
          o.kind = "read" /\ CopiesIn(o, ops') # CopiesIn(o, ops)
StrokeStep ==
    \/ StoreCalls(ops') # StoreCalls(ops)
    \/ <<store, strokes>>' # <<store, strokes>>
C35_CloudsAndStrokesAreIndependent ==
    [][/\ CloudStep => /\ StoreCalls(ops') = StoreCalls(ops)
                       /\ UNCHANGED <<store, strokes>>
       /\ \A o \in InFlight :
             (o.kind = "read" /\ StepOf(o) /\ ~PCDLoaderParses(Files[o.inp].text)) =>
                /\ Len(pcdFileContents') >= Len(pcdFileContents)
                /\ SubSeq(pcdFileContents', 1, Len(pcdFileContents)) = pcdFileContents
                /\ LoadedClouds(pcdFileContents') = LoadedClouds(pcdFileContents)
       /\ StrokeStep => pcdFileContents' = pcdFileContents]_vars
\* a cloud is shown, a later file failed to decode, and a stroke is stored
\* and listed
C35_Witness ==
    /\ Len(pcdFileContents) = 2
    /\ PCDLoaderParses(pcdFileContents[1])
    /\ ~PCDLoaderParses(pcdFileContents[2])
    /\ strokes # <<>>
    /\ \E db \in Runs : geomT[db] \cup jsonT[db] # {}

\* C36: a pointer-down handled while the surface is enabled and already
\* drawing hands nothing to onFinish: drawing stays set and the accumulator
\* becomes the single point of this event, the points accumulated before
\* being dropped.  Whatever is handed to onFinish later is the accumulator of
\* that moment, so the dropped points are never handed over.
C36_PointerDownRestartsTheStroke ==
    /\ [][(enabled /\ drawing /\ last'.op = "onPointerDown") =>
            /\ onFinish' = onFinish
            /\ drawing'
            /\ ptsPxRef' = <<worldToPx(view, PointerPoints[last'.inp][1],
                                             PointerPoints[last'.inp][2])>>]_vars
    /\ [][onFinish' # onFinish => onFinish'.ptsPx = ptsPxRef]_vars
\* a stroke of two points is in capture, nothing was handed over yet and the
\* surface is enabled: the pointer-down handled next restarts it
C36_Witness ==
    /\ enabled
    /\ drawing
    /\ Len(ptsPxRef) = 2
    /\ onFinish.calls = 0
    /\ last.op = "onPointerMove"

\* C37: whenever the connection is exposed and spatialLoaded is true, the
\* startup run that opened this connection loaded the spatial extension on
\* it and created table strokes on it; so no operation reaches table strokes
\* on a connection that does not have it.
C37_GeometryTableIsOnTheConnection ==
    (dbConn # NoConn /\ spatialLoaded) =>
        (spatialOK[dbConn] /\ "strokes" \in created[dbConn])

\* C38: an undo called with a non-empty exposed list and run with no other
\* operation in flight removes the last element of the exposed list: when
\* its reload returns, the list is the list of before without its last
\* element, the others in their order.  (In SpecUndoAlone nothing is started
\* while an undo is in flight, and the exposed list changes only when a
\* reload returns, so the list the undo's reload replaces is the list the
\* undo was called with.)
C38_UndoRemovesLastDisplayed ==
    [][\A o \in InFlight :
         (/\ o.kind = "undo" /\ o.pc = "reloadJson" /\ Alone(o) /\ StepOf(o)
          /\ strokes # <<>>) =>
            strokes' = SubSeq(strokes, 1, Len(strokes) - 1)]_vars

\* C39 (as stated): if no await of a startup run rejects and the effect is
\* not cleaned up, then eventually loading is false, the connection is
\* exposed, the reload the exposure starts has returned and the exposed list
\* is what a reload of the Store's contents returns.
StartupFailed == \E r \in Runs : pc[r] = "failed"
TornDown == \E r \in Runs : cancelled[r]
InitialReloadReturned ==
    /\ dbConn # NoConn
    /\ ~\E o \in InFlight : o.kind = "effect"
C39_StartupEndsWithCurrentList ==
    <>(\/ StartupFailed
       \/ TornDown
       \/ /\ loading = FALSE
          /\ InitialReloadReturned
          /\ strokes = Reloaded(dbConn, spatialLoaded))

\* C39 (amended): under the same conditions, eventually loading is false,
\* the connection is exposed and the reload the exposure starts has
\* returned, with spatialLoaded true or false; the list that reload exposes
\* is what it read, which is what a reload of the Store's contents returns
\* if table strokes was not written between its two queries.
C39_StartupReachesReady ==
    /\ <>(\/ StartupFailed
          \/ TornDown
          \/ (loading = FALSE /\ InitialReloadReturned))
    /\ [][\A o \in InFlight :
            (/\ o.kind = "effect" /\ o.pc = "reloadJson" /\ StepOf(o)
             /\ o.spatial => o.list = GeomStrokes(geomT[o.conn])) =>
               strokes' = Reloaded(o.conn, o.spatial)]_vars
\* startup has ended in ready without the geometry capability: one run, not
\* cleaned up, its initial reload has returned, and a stroke was stored since
C39_Witness ==
    /\ ~StartupFailed
    /\ ~TornDown
    /\ loading = FALSE
    /\ InitialReloadReturned
    /\ ~spatialLoaded
    /\ Quiet
    /\ Len(strokes) = 1
    /\ strokes = Reloaded(dbConn, spatialLoaded)

====
